---- MODULE Spec2Model ----
(***************************************************************************)
(* Model of the GRU flight-board scraper (src/scrapers/gru_proximos):      *)
(*   - ScraperEngine.scrape / run: the capture state machine               *)
(*     (online pagination, freeze, extraction, unfreeze);                  *)
(*   - FlightDataProcessor.extract_from_text: the per-row parse;           *)
(*   - FlightDataProcessor.extract_from_snapshot: the in-memory row loop;  *)
(*   - FlightDataProcessor.save_to_csv: dedupe, consolidation, clean-up;   *)
(*   - FlightValidator.validate and calculate_delay_alerts (validators.py);*)
(*   - MCPDiagnostics.search_airline_codes and the carrier cascade         *)
(*     FlightDataProcessor._match_company that consults it.                *)
(* Texts are sequences of one-character strings; an accented letter is one *)
(* element written with a trailing apostrophe ("o'" is o-acute).           *)
(***************************************************************************)
EXTENDS Integers, Sequences, FiniteSets, TLC

VARIABLES
    \* ---- ScraperEngine.scrape / run ----
    pc,                \* position in run()/scrape()
    page_kinds,        \* the board: handle -> kind of its row text
    has_detalhes,      \* the rows carry the word 'Detalhes' (strategy 1 finds them)
    loaded,            \* number of rows the board has rendered so far
    page_version,      \* bumped by every mutation of the live board
    ctx,               \* 'context' is bound in scrape's locals
    offline,           \* context.set_offline state
    stabilized,        \* the post-freeze stabilization wait has completed
    froze,             \* set_offline(True) has been called
    freeze_version,    \* page_version when set_offline(True) returned
    unfreeze_calls,    \* number of set_offline(False) calls
    unfreeze_raised,   \* some set_offline(False) call raised
    attempt,           \* _load_all_pages: loop variable
    sel,               \* _load_all_pages: index in LOAD_MORE_SELECTORS
    button_found,      \* _load_all_pages: local
    clicks_performed,  \* _load_all_pages: local / return value
    gave_up_early,     \* _load_all_pages left its loop through 'break' at line 118
    strategy,          \* find_containers: 0 none yet, 1 'Detalhes', 2 time format
    div_idx,           \* find_containers / extract_from_snapshot: loop index
    flight_blocks,     \* sequence of handles
    reads,             \* handle -> number of inner_text() calls
    read_log,          \* conditions under which inner_text() was called
    row_texts,         \* captured snapshot: sequence of [h, ver]
    flights,           \* extract_from_snapshot's return value (handles)
    ret_pending,       \* what the inner try block is about to return
    failure,           \* which page-level failure was raised (history)
    result,            \* scrape's return value
    run_ret,           \* run's return value
    report_written,    \* run wrote a CSV report
    \* ---- FlightDataProcessor.extract_from_text ----
    ppc,               \* position of the extract_from_text call
    row_text,          \* its argument
    parse_out,         \* its outcome
    \* ---- FlightDataProcessor.extract_from_snapshot, the in-memory loop ----
    spc,               \* position in the loop over row_texts
    snap_rows,         \* the captured row texts, each with the fault its processing meets
    snap_i,            \* index of the row the loop is at
    seen_flights,      \* unique keys accepted so far
    all_flights_raw,   \* records accepted so far
    invalid_count,     \* rows whose processing raised
    descartados,       \* rows rejected
    \* ---- FlightDataProcessor.save_to_csv ----
    svpc,              \* position in save_to_csv
    scraped_flights,   \* its argument
    agora,             \* the wall clock, seconds after midnight
    df,                \* flights_to_save, then the DataFrame df
    applied,           \* the frames groupby(...).apply(consolidate_group) has collected
    csv_written,       \* to_csv wrote the file
    csv_rows,          \* the rows of that file
    save_ret,          \* save_to_csv's return value, -1 before it returns
    \* ---- validators.py: one call of validate or of calculate_delay_alerts ----
    vpc,               \* position of the call
    v_args,            \* its arguments
    v_ret,             \* its return value
    \* ---- MCPDiagnostics (mcp_diagnostics.py) and the cascade that consults it ----
    lpc,               \* "ready", or which call has just returned
    cache,             \* self.cache: key -> entry, an entry being a dict
    clock,             \* datetime.now(), in hours
    mcp_call_count,    \* the module's _mcp_call_count
    dry_run,           \* self.dry_run
    l_args,            \* the arguments of the last call
    l_ret,             \* its outcome: raised, or the value returned
    l_trace            \* the calls it made on the collaborator, in order

scrapeVars == <<pc, page_kinds, has_detalhes, loaded, page_version, ctx, offline, stabilized,
                froze, freeze_version, unfreeze_calls, unfreeze_raised, attempt, sel,
                button_found, clicks_performed, gave_up_early, strategy, div_idx,
                flight_blocks, reads, read_log, row_texts, flights, ret_pending,
                failure, result, run_ret, report_written>>

parseVars == <<ppc, row_text, parse_out>>

snapVars == <<spc, snap_rows, snap_i, seen_flights, all_flights_raw, invalid_count, descartados>>

saveVars == <<svpc, scraped_flights, agora, df, applied, csv_written, csv_rows, save_ret>>

validatorVars == <<vpc, v_args, v_ret>>

lookupVars == <<lpc, cache, clock, mcp_call_count, dry_run, l_args, l_ret, l_trace>>

vars == <<scrapeVars, parseVars, snapVars, saveVars, validatorVars, lookupVars>>

\* the variables outside each part of the program
notScrapeVars == <<parseVars, snapVars, saveVars, validatorVars, lookupVars>>

notParseVars == <<scrapeVars, snapVars, saveVars, validatorVars, lookupVars>>

notSnapVars == <<scrapeVars, parseVars, saveVars, validatorVars, lookupVars>>

notSaveVars == <<scrapeVars, parseVars, snapVars, validatorVars, lookupVars>>

notValidatorVars == <<scrapeVars, parseVars, snapVars, saveVars, lookupVars>>

notLookupVars == <<scrapeVars, parseVars, snapVars, saveVars, validatorVars>>

(***************************************************************************)
(* Bounds of the model and program constants.                             *)
(***************************************************************************)
NumRows == 2            \* rows the board can show
MaxVersion == 1         \* board mutations followed
max_clicks == 4         \* ScraperEngine(max_clicks=...)
NumSelectors == 7       \* len(LOAD_MORE_SELECTORS)
ScrollRetries == 2      \* 'if attempt < 2'
MinRowLen == 10         \* 'len(row_text.strip()) > 10'
MinTextLen == 10        \* 'len(text_clean) < 10'
MaxWords == 4           \* words of a row text
MaxSnapRows == 3        \* row texts of a snapshot
MaxFlights == 3         \* flights handed to save_to_csv

Handles == 1..NumRows
RowKinds == {"flight", "reject", "short"}
NoResult == <<-1>>           \* scrape has not returned yet

\* Rows rendered so far: the first page shows one row, every click loads one more.
Loaded == 1..loaded

RECURSIVE SeqOfSet(_)
SeqOfSet(S) ==
    IF S = {} THEN <<>>
    ELSE LET m == CHOOSE x \in S : \A y \in S : x <= y
         IN <<m>> \o SeqOfSet(S \ {m})

(***************************************************************************)
(* ScraperEngine.scrape and ScraperEngine.run                              *)
(***************************************************************************)
ScrapeInit ==
    /\ pc = "run"
    /\ page_kinds = [h \in Handles |-> "short"]
    /\ has_detalhes = FALSE
    /\ loaded = 1
    /\ page_version = 0
    /\ ctx = FALSE
    /\ offline = FALSE
    /\ stabilized = FALSE
    /\ froze = FALSE
    /\ freeze_version = 0
    /\ unfreeze_calls = 0
    /\ unfreeze_raised = FALSE
    /\ attempt = 0
    /\ sel = 1
    /\ button_found = FALSE
    /\ clicks_performed = 0
    /\ gave_up_early = FALSE
    /\ strategy = 0
    /\ div_idx = 1
    /\ flight_blocks = <<>>
    /\ reads = [h \in Handles |-> 0]
    /\ read_log = {}
    /\ row_texts = <<>>
    /\ flights = <<>>
    /\ ret_pending = "none"
    /\ failure = "none"
    /\ result = NoResult
    /\ run_ret = -1
    /\ report_written = FALSE

\* The live board re-renders while it is connected (online) only.
SourceMutate ==
    /\ UNCHANGED notScrapeVars
    /\ pc \in {"freeze", "stabilize", "find", "find_read_div",
              "snapshot_read", "process", "unfreeze"}
    /\ ~offline
    /\ page_version < MaxVersion
    /\ page_version' = page_version + 1
    /\ UNCHANGED <<pc, page_kinds, has_detalhes, loaded, ctx, offline, stabilized, froze,
                   freeze_version, unfreeze_calls, unfreeze_raised, attempt, sel,
                   button_found, clicks_performed, gave_up_early, strategy, div_idx,
                   flight_blocks, reads, read_log, row_texts, flights, ret_pending,
                   failure, result, run_ret, report_written>>

\* run(): 'flights = self.scrape()'
Run ==
    /\ UNCHANGED notScrapeVars
    /\ pc = "run"
    /\ pc' = "launch"
    /\ UNCHANGED <<page_kinds, has_detalhes, loaded, page_version, ctx, offline, stabilized,
                   froze, freeze_version, unfreeze_calls, unfreeze_raised, attempt, sel,
                   button_found, clicks_performed, gave_up_early, strategy, div_idx,
                   flight_blocks, reads, read_log, row_texts, flights, ret_pending,
                   failure, result, run_ret, report_written>>

\* scrape(): sync_playwright, launch, new_context, new_page, route (outside the inner try)
Launch(ok) ==
    /\ UNCHANGED notScrapeVars
    /\ pc = "launch"
    /\ IF ok THEN /\ ctx' = TRUE
                  /\ pc' = "goto"
                  /\ UNCHANGED failure
            ELSE /\ pc' = "outer_except"
                 /\ failure' = "launch"
                 /\ UNCHANGED ctx
    /\ UNCHANGED <<page_kinds, has_detalhes, loaded, page_version, offline, stabilized,
                   froze, freeze_version, unfreeze_calls, unfreeze_raised, attempt, sel,
                   button_found, clicks_performed, gave_up_early, strategy, div_idx,
                   flight_blocks, reads, read_log, row_texts, flights, ret_pending,
                   result, run_ret, report_written>>

\* page.goto(VOOS_URL, timeout=PAGE_LOAD_TIMEOUT)
Goto(ok) ==
    /\ UNCHANGED notScrapeVars
    /\ pc = "goto"
    /\ IF ok THEN pc' = "initial_wait" /\ UNCHANGED failure
            ELSE pc' = "except" /\ failure' = "navigation"
    /\ UNCHANGED <<page_kinds, has_detalhes, loaded, page_version, ctx, offline, stabilized,
                   froze, freeze_version, unfreeze_calls, unfreeze_raised, attempt, sel,
                   button_found, clicks_performed, gave_up_early, strategy, div_idx,
                   flight_blocks, reads, read_log, row_texts, flights, ret_pending,
                   result, run_ret, report_written>>

\* wait_for_selector (errors swallowed), wait_for_timeout(INITIAL_PAGE_WAIT),
\* then the entry of _load_all_pages ('clicks_performed = 0', 'for attempt in range')
InitialWait(ok) ==
    /\ UNCHANGED notScrapeVars
    /\ pc = "initial_wait"
    /\ IF ok THEN /\ pc' = IF max_clicks > 0 THEN "load_selector" ELSE "scroll_render"
                  /\ UNCHANGED failure
            ELSE /\ pc' = "except"
                 /\ failure' = "wait"
    /\ attempt' = 0
    /\ sel' = 1
    /\ button_found' = FALSE
    /\ clicks_performed' = 0
    /\ UNCHANGED <<page_kinds, has_detalhes, loaded, page_version, ctx, offline, stabilized,
                   froze, freeze_version, unfreeze_calls, unfreeze_raised,
                   gave_up_early, strategy, div_idx,
                   flight_blocks, reads, read_log, row_texts, flights, ret_pending,
                   result, run_ret, report_written>>

LoadOutcomes == {"query_raises", "not_found", "click_raises", "clicked", "wait_raises"}

\* _load_all_pages: one pass of 'for selector in LOAD_MORE_SELECTORS' (try/except/continue)
LoadSelector(outcome) ==
    /\ UNCHANGED notScrapeVars
    /\ pc = "load_selector"
    /\ IF outcome \in {"clicked", "wait_raises"}
          THEN /\ button_found' = TRUE
               /\ clicks_performed' = clicks_performed + 1
               /\ loaded' = IF loaded < NumRows THEN loaded + 1 ELSE loaded
          ELSE UNCHANGED <<button_found, clicks_performed, loaded>>
    /\ IF outcome = "clicked" \/ sel = NumSelectors
          THEN pc' = "after_selectors" /\ UNCHANGED sel
          ELSE pc' = "load_selector" /\ sel' = sel + 1
    /\ UNCHANGED <<page_kinds, has_detalhes, page_version, ctx, offline, stabilized,
                   froze, freeze_version, unfreeze_calls, unfreeze_raised, attempt,
                   gave_up_early, strategy, div_idx,
                   flight_blocks, reads, read_log, row_texts, flights, ret_pending,
                   failure, result, run_ret, report_written>>

\* _load_all_pages returns (or raises): its locals are gone; scrape only logs the
\* returned count and never reads it again
LoadLocalsDie ==
    /\ attempt' = 0
    /\ sel' = 1
    /\ button_found' = FALSE
    /\ clicks_performed' = 0

\* the next iteration of 'for attempt in range(self.max_clicks)', or the loop's end
NextAttempt ==
    IF attempt + 1 < max_clicks
       THEN /\ attempt' = attempt + 1
            /\ sel' = 1
            /\ button_found' = FALSE
            /\ pc' = "load_selector"
            /\ UNCHANGED clicks_performed
       ELSE /\ pc' = "scroll_render"
            /\ LoadLocalsDie

\* _load_all_pages: 'if not button_found:' ... scroll retry, wait, continue or break
LoadAfterSelectors(scroll_ok, wait_ok) ==
    /\ UNCHANGED notScrapeVars
    /\ pc = "after_selectors"
    /\ IF button_found \/ (attempt < ScrollRetries /\ scroll_ok)
          THEN NextAttempt /\ UNCHANGED <<gave_up_early, failure>>
          ELSE IF clicks_performed < max_clicks
                  THEN IF wait_ok
                          THEN NextAttempt /\ UNCHANGED <<gave_up_early, failure>>
                          ELSE /\ pc' = "except"
                               /\ failure' = "pagination"
                               /\ LoadLocalsDie
                               /\ UNCHANGED gave_up_early
                  ELSE /\ gave_up_early' = TRUE
                       /\ pc' = "scroll_render"
                       /\ LoadLocalsDie
                       /\ UNCHANGED failure
    /\ UNCHANGED <<page_kinds, has_detalhes, loaded, page_version, ctx, offline, stabilized,
                   froze, freeze_version, unfreeze_calls, unfreeze_raised,
                   strategy, div_idx,
                   flight_blocks, reads, read_log, row_texts, flights, ret_pending,
                   result, run_ret, report_written>>

\* _scroll_to_render (errors swallowed), wait_for_timeout(FINAL_RENDER_WAIT),
\* the MCP consultation and the extra wait (errors swallowed)
PreFreeze(ok) ==
    /\ UNCHANGED notScrapeVars
    /\ pc = "scroll_render"
    /\ IF ok THEN pc' = "freeze" /\ UNCHANGED failure
            ELSE pc' = "except" /\ failure' = "wait"
    /\ UNCHANGED <<page_kinds, has_detalhes, loaded, page_version, ctx, offline, stabilized,
                   froze, freeze_version, unfreeze_calls, unfreeze_raised, attempt, sel,
                   button_found, clicks_performed, gave_up_early, strategy, div_idx,
                   flight_blocks, reads, read_log, row_texts, flights, ret_pending,
                   result, run_ret, report_written>>

\* A plausible slip: the freeze only logs and never disconnects the source.
FreezeDom_log_only(ok, kinds, det) ==
    /\ UNCHANGED notScrapeVars
    /\ pc = "freeze"
    /\ froze' = TRUE
    /\ freeze_version' = page_version
    /\ page_kinds' = kinds
    /\ has_detalhes' = det
    /\ IF ok THEN pc' = "stabilize" /\ UNCHANGED failure
            ELSE pc' = "except" /\ failure' = "freeze"
    /\ UNCHANGED <<loaded, page_version, ctx, offline, stabilized,
                   unfreeze_calls, unfreeze_raised, attempt, sel,
                   button_found, clicks_performed, gave_up_early, strategy, div_idx,
                   flight_blocks, reads, read_log, row_texts, flights, ret_pending,
                   result, run_ret, report_written>>

\* _freeze_dom: context.set_offline(True). The texts the board shows at this moment
\* (kinds, det) are what a frozen source keeps returning.
FreezeDom(ok, kinds, det) ==
    /\ UNCHANGED notScrapeVars
    /\ pc = "freeze"
    /\ froze' = TRUE
    /\ freeze_version' = page_version
    /\ page_kinds' = kinds
    /\ has_detalhes' = det
    /\ IF ok THEN /\ offline' = TRUE
                  /\ pc' = "stabilize"
                  /\ UNCHANGED failure
            ELSE /\ pc' = "except"
                 /\ failure' = "freeze"
                 /\ UNCHANGED offline
    /\ UNCHANGED <<loaded, page_version, ctx, stabilized,
                   unfreeze_calls, unfreeze_raised, attempt, sel,
                   button_found, clicks_performed, gave_up_early, strategy, div_idx,
                   flight_blocks, reads, read_log, row_texts, flights, ret_pending,
                   result, run_ret, report_written>>

\* page.wait_for_timeout(OFFLINE_STABILIZATION_WAIT)
StabilizeWait(ok) ==
    /\ UNCHANGED notScrapeVars
    /\ pc = "stabilize"
    /\ IF ok THEN /\ stabilized' = TRUE
                  /\ pc' = "find"
                  /\ UNCHANGED failure
            ELSE /\ pc' = "except"
                 /\ failure' = "wait"
                 /\ UNCHANGED stabilized
    /\ UNCHANGED <<page_kinds, has_detalhes, loaded, page_version, ctx, offline,
                   froze, freeze_version, unfreeze_calls, unfreeze_raised, attempt, sel,
                   button_found, clicks_performed, gave_up_early, strategy, div_idx,
                   flight_blocks, reads, read_log, row_texts, flights, ret_pending,
                   result, run_ret, report_written>>

\* what one inner_text() call observes of the capture's state
ReadCondition == [frozen |-> offline /\ stabilized, unfrozen |-> unfreeze_calls > 0]

FindOutcomes == {"ok", "swallowed", "raises"}

\* extract_from_snapshot entry and find_containers up to the choice of strategy:
\* "swallowed" is an error inside find_containers' try (it returns no blocks),
\* "raises" an error outside every try of the extraction (a logging call).
FindContainers(outcome) ==
    /\ UNCHANGED notScrapeVars
    /\ pc = "find"
    /\ CASE outcome = "raises" ->
              /\ pc' = "except"
              /\ failure' = "extraction"
              /\ UNCHANGED <<strategy, flight_blocks, flights>>
         [] outcome = "swallowed" ->
              /\ pc' = "unfreeze"
              /\ flights' = <<>>
              /\ UNCHANGED <<strategy, flight_blocks, failure>>
         [] outcome = "ok" /\ has_detalhes ->
              /\ strategy' = 1
              /\ flight_blocks' = SeqOfSet(Loaded)
              /\ pc' = "snapshot_read"
              /\ UNCHANGED <<flights, failure>>
         [] outcome = "ok" /\ ~has_detalhes ->
              /\ strategy' = 2
              /\ pc' = "find_read_div"
              /\ UNCHANGED <<flight_blocks, flights, failure>>
    /\ div_idx' = 1
    /\ UNCHANGED <<page_kinds, has_detalhes, loaded, page_version, ctx, offline, stabilized,
                   froze, freeze_version, unfreeze_calls, unfreeze_raised, attempt, sel,
                   button_found, clicks_performed, gave_up_early,
                   reads, read_log, row_texts, ret_pending,
                   result, run_ret, report_written>>

\* find_containers, strategy 2: 'for div in all_divs: text = div.inner_text().strip()'
FindReadDiv(ok) ==
    /\ UNCHANGED notScrapeVars
    /\ pc = "find_read_div"
    /\ LET h == SeqOfSet(Loaded)[div_idx]
           blocks == IF ok /\ page_kinds[h] # "short"
                        THEN Append(flight_blocks, h) ELSE flight_blocks
           last == div_idx = Cardinality(Loaded)
       IN /\ IF ok THEN /\ reads' = [reads EXCEPT ![h] = @ + 1]
                        /\ read_log' = read_log \cup {ReadCondition}
                   ELSE UNCHANGED <<reads, read_log>>
          /\ flight_blocks' = blocks
          /\ IF ~last
                THEN /\ div_idx' = div_idx + 1
                     /\ pc' = "find_read_div"
                     /\ UNCHANGED flights
                ELSE /\ div_idx' = 1
                     /\ IF blocks = <<>>
                           THEN pc' = "unfreeze" /\ flights' = <<>>
                           ELSE pc' = "snapshot_read" /\ UNCHANGED flights
    /\ UNCHANGED <<page_kinds, has_detalhes, loaded, page_version, ctx, offline, stabilized,
                   froze, freeze_version, unfreeze_calls, unfreeze_raised, attempt, sel,
                   button_found, clicks_performed, gave_up_early, strategy,
                   row_texts, ret_pending,
                   failure, result, run_ret, report_written>>

\* extract_from_snapshot, step 1: 'for block in flight_blocks: row_text = block.inner_text()'
SnapshotRead(ok) ==
    /\ UNCHANGED notScrapeVars
    /\ pc = "snapshot_read"
    /\ LET h == flight_blocks[div_idx]
       IN /\ IF ok THEN /\ reads' = [reads EXCEPT ![h] = @ + 1]
                        /\ read_log' = read_log \cup {ReadCondition}
                        /\ row_texts' = IF page_kinds[h] # "short"
                                           THEN Append(row_texts, [h |-> h, ver |-> page_version])
                                           ELSE row_texts
                   ELSE UNCHANGED <<reads, read_log, row_texts>>
          /\ IF div_idx < Len(flight_blocks)
                THEN div_idx' = div_idx + 1 /\ pc' = "snapshot_read"
                ELSE div_idx' = 1 /\ pc' = "process"
    /\ UNCHANGED <<page_kinds, has_detalhes, loaded, page_version, ctx, offline, stabilized,
                   froze, freeze_version, unfreeze_calls, unfreeze_raised, attempt, sel,
                   button_found, clicks_performed, gave_up_early, strategy,
                   flight_blocks, flights, ret_pending,
                   failure, result, run_ret, report_written>>

RECURSIVE ParsedHandles(_)
ParsedHandles(rows) ==
    IF rows = <<>> THEN <<>>
    ELSE (IF page_kinds[Head(rows).h] = "flight" THEN <<Head(rows).h>> ELSE <<>>)
         \o ParsedHandles(Tail(rows))

\* extract_from_snapshot, step 2: the in-memory loop over row_texts (no browser access)
ProcessRows ==
    /\ UNCHANGED notScrapeVars
    /\ pc = "process"
    /\ flights' = ParsedHandles(row_texts)
    /\ pc' = "unfreeze"
    /\ UNCHANGED <<page_kinds, has_detalhes, loaded, page_version, ctx, offline, stabilized,
                   froze, freeze_version, unfreeze_calls, unfreeze_raised, attempt, sel,
                   button_found, clicks_performed, gave_up_early, strategy, div_idx,
                   flight_blocks, reads, read_log, row_texts, ret_pending,
                   failure, result, run_ret, report_written>>

\* phase 4: 'self._unfreeze_dom(context)' then 'return flights'
UnfreezeDom(ok) ==
    /\ UNCHANGED notScrapeVars
    /\ pc = "unfreeze"
    /\ unfreeze_calls' = unfreeze_calls + 1
    /\ IF ok THEN /\ offline' = FALSE
                  /\ ret_pending' = "flights"
                  /\ pc' = "finally"
                  /\ UNCHANGED <<unfreeze_raised, failure>>
            ELSE /\ unfreeze_raised' = TRUE
                 /\ failure' = "unfreeze"
                 /\ pc' = "except"
                 /\ UNCHANGED <<offline, ret_pending>>
    /\ UNCHANGED <<page_kinds, has_detalhes, loaded, page_version, ctx, stabilized,
                   froze, freeze_version, attempt, sel,
                   button_found, clicks_performed, gave_up_early, strategy, div_idx,
                   flight_blocks, reads, read_log, row_texts, flights,
                   result, run_ret, report_written>>

\* inner 'except Exception as e:' logs and falls through
Except ==
    /\ UNCHANGED notScrapeVars
    /\ pc = "except"
    /\ pc' = "finally"
    /\ UNCHANGED <<page_kinds, has_detalhes, loaded, page_version, ctx, offline, stabilized,
                   froze, freeze_version, unfreeze_calls, unfreeze_raised, attempt, sel,
                   button_found, clicks_performed, gave_up_early, strategy, div_idx,
                   flight_blocks, reads, read_log, row_texts, flights, ret_pending,
                   failure, result, run_ret, report_written>>

\* A plausible slip: the clean-up closes the browser without restoring connectivity.
Finally_without_unfreeze(ok) ==
    /\ UNCHANGED notScrapeVars
    /\ pc = "finally"
    /\ IF ret_pending = "flights"
          THEN result' = flights /\ pc' = "scrape_done"
          ELSE UNCHANGED result /\ pc' = "return_empty"
    /\ UNCHANGED <<page_kinds, has_detalhes, loaded, page_version, ctx, offline, stabilized,
                   froze, freeze_version, unfreeze_calls, unfreeze_raised, attempt, sel,
                   button_found, clicks_performed, gave_up_early, strategy, div_idx,
                   flight_blocks, reads, read_log, row_texts, flights, ret_pending,
                   failure, run_ret, report_written>>

\* 'finally:' _unfreeze_dom(context), context.close(), browser.close(), errors swallowed;
\* then the pending 'return flights' completes or control falls to 'return []'
Finally(ok) ==
    /\ UNCHANGED notScrapeVars
    /\ pc = "finally"
    /\ IF ctx
          THEN /\ unfreeze_calls' = unfreeze_calls + 1
               /\ IF ok THEN offline' = FALSE /\ UNCHANGED unfreeze_raised
                       ELSE unfreeze_raised' = TRUE /\ UNCHANGED offline
          ELSE UNCHANGED <<unfreeze_calls, offline, unfreeze_raised>>
    /\ IF ret_pending = "flights"
          THEN result' = flights /\ pc' = "scrape_done"
          ELSE UNCHANGED result /\ pc' = "return_empty"
    /\ UNCHANGED <<page_kinds, has_detalhes, loaded, page_version, ctx, stabilized,
                   froze, freeze_version, attempt, sel,
                   button_found, clicks_performed, gave_up_early, strategy, div_idx,
                   flight_blocks, reads, read_log, row_texts, flights, ret_pending,
                   failure, run_ret, report_written>>

\* outer 'except Exception as e:' logs and falls through
OuterExcept ==
    /\ UNCHANGED notScrapeVars
    /\ pc = "outer_except"
    /\ pc' = "return_empty"
    /\ UNCHANGED <<page_kinds, has_detalhes, loaded, page_version, ctx, offline, stabilized,
                   froze, freeze_version, unfreeze_calls, unfreeze_raised, attempt, sel,
                   button_found, clicks_performed, gave_up_early, strategy, div_idx,
                   flight_blocks, reads, read_log, row_texts, flights, ret_pending,
                   failure, result, run_ret, report_written>>

\* A plausible slip: the fall-through return hands back whatever was extracted.
ReturnEmpty_returns_flights ==
    /\ UNCHANGED notScrapeVars
    /\ pc = "return_empty"
    /\ result' = flights
    /\ pc' = "scrape_done"
    /\ UNCHANGED <<page_kinds, has_detalhes, loaded, page_version, ctx, offline, stabilized,
                   froze, freeze_version, unfreeze_calls, unfreeze_raised, attempt, sel,
                   button_found, clicks_performed, gave_up_early, strategy, div_idx,
                   flight_blocks, reads, read_log, row_texts, flights, ret_pending,
                   failure, run_ret, report_written>>

\* scrape's last line: 'return []'
ReturnEmpty ==
    /\ UNCHANGED notScrapeVars
    /\ pc = "return_empty"
    /\ result' = <<>>
    /\ pc' = "scrape_done"
    /\ UNCHANGED <<page_kinds, has_detalhes, loaded, page_version, ctx, offline, stabilized,
                   froze, freeze_version, unfreeze_calls, unfreeze_raised, attempt, sel,
                   button_found, clicks_performed, gave_up_early, strategy, div_idx,
                   flight_blocks, reads, read_log, row_texts, flights, ret_pending,
                   failure, run_ret, report_written>>

\* run(): 'if not flights: return 0', else save_to_csv writes the report and
\* returns the number of rows it kept
RunFinish(n) ==
    /\ UNCHANGED notScrapeVars
    /\ pc = "scrape_done"
    /\ n <= Len(result)
    /\ IF result = <<>>
          THEN run_ret' = 0 /\ UNCHANGED report_written
          ELSE run_ret' = n /\ report_written' = TRUE
    /\ pc' = "done"
    /\ UNCHANGED <<page_kinds, has_detalhes, loaded, page_version, ctx, offline, stabilized,
                   froze, freeze_version, unfreeze_calls, unfreeze_raised, attempt, sel,
                   button_found, clicks_performed, gave_up_early, strategy, div_idx,
                   flight_blocks, reads, read_log, row_texts, flights, ret_pending,
                   failure, result>>

ScrapeNext ==
    \/ SourceMutate
    \/ Run
    \/ \E ok \in BOOLEAN : Launch(ok)
    \/ \E ok \in BOOLEAN : Goto(ok)
    \/ \E ok \in BOOLEAN : InitialWait(ok)
    \/ \E o \in LoadOutcomes : LoadSelector(o)
    \/ \E s \in BOOLEAN, w \in BOOLEAN : LoadAfterSelectors(s, w)
    \/ \E ok \in BOOLEAN : PreFreeze(ok)
    \/ \E ok \in BOOLEAN, kinds \in [Handles -> RowKinds], det \in BOOLEAN :
           FreezeDom(ok, kinds, det)
    \/ \E ok \in BOOLEAN : StabilizeWait(ok)
    \/ \E o \in FindOutcomes : FindContainers(o)
    \/ \E ok \in BOOLEAN : FindReadDiv(ok)
    \/ \E ok \in BOOLEAN : SnapshotRead(ok)
    \/ ProcessRows
    \/ \E ok \in BOOLEAN : UnfreezeDom(ok)
    \/ Except
    \/ \E ok \in BOOLEAN : Finally(ok)
    \/ OuterExcept
    \/ ReturnEmpty
    \/ \E n \in 0..NumRows : RunFinish(n)

(***************************************************************************)
(* Texts.  A str is a sequence of one-character strings; the operators     *)
(* below are the str methods and the regular expressions that              *)
(* data_processor.py applies to a row text.                                *)
(***************************************************************************)
digits == {"0", "1", "2", "3", "4", "5", "6", "7", "8", "9"}

ascii_uppercase == <<"A", "B", "C", "D", "E", "F", "G", "H", "I", "J", "K", "L", "M",
                     "N", "O", "P", "Q", "R", "S", "T", "U", "V", "W", "X", "Y", "Z">>

ascii_lowercase == <<"a", "b", "c", "d", "e", "f", "g", "h", "i", "j", "k", "l", "m",
                     "n", "o", "p", "q", "r", "s", "t", "u", "v", "w", "x", "y", "z">>

\* the accented letters of config.py: a-acute, a-tilde, c-cedilla, e-acute,
\* i-acute, o-acute, u-acute
accent_uppercase == <<"A'", "A~", "C,", "E'", "I'", "O'", "U'">>

accent_lowercase == <<"a'", "a~", "c,", "e'", "i'", "o'", "u'">>

whitespace == {" ", "\n", "\t"}

Range(seq) == {seq[i] : i \in DOMAIN seq}

\* [A-Z] of a str pattern compiled without re.IGNORECASE
AZ == Range(ascii_uppercase)

\* \w of a str pattern: letters (accented ones too), digits and underscore
word_chars ==
    digits \cup Range(ascii_uppercase) \cup Range(ascii_lowercase)
           \cup Range(accent_uppercase) \cup Range(accent_lowercase) \cup {"_"}

IsWordChar(c) == c \in word_chars

\* \b at position i of s: between s[i-1] and s[i], exactly one is a word character
WordBoundary(s, i) ==
    LET before == i > 1 /\ i - 1 <= Len(s) /\ IsWordChar(s[i - 1])
        after == i >= 1 /\ i <= Len(s) /\ IsWordChar(s[i])
    IN before # after

upper_table ==
    [c \in Range(ascii_lowercase) \cup Range(accent_lowercase) |->
        LET low == ascii_lowercase \o accent_lowercase
            up == ascii_uppercase \o accent_uppercase
        IN up[CHOOSE i \in DOMAIN low : low[i] = c]]

lower_table ==
    [c \in Range(ascii_uppercase) \cup Range(accent_uppercase) |->
        LET low == ascii_lowercase \o accent_lowercase
            up == ascii_uppercase \o accent_uppercase
        IN low[CHOOSE i \in DOMAIN up : up[i] = c]]

\* str.upper()
upper(s) == [i \in DOMAIN s |-> IF s[i] \in DOMAIN upper_table THEN upper_table[s[i]] ELSE s[i]]

\* str.lower()
lower(s) == [i \in DOMAIN s |-> IF s[i] \in DOMAIN lower_table THEN lower_table[s[i]] ELSE s[i]]

\* 'needle in hay' for two strs
Contains(hay, needle) ==
    \E i \in 1..(Len(hay) - Len(needle) + 1) : SubSeq(hay, i, i + Len(needle) - 1) = needle

\* str.split(): the maximal runs of non-whitespace characters
RECURSIVE split(_)
split(s) ==
    IF s = <<>> THEN <<>>
    ELSE IF s[1] \in whitespace THEN split(Tail(s))
    ELSE LET n == CHOOSE k \in 1..Len(s) :
                      /\ \A j \in 1..k : s[j] \notin whitespace
                      /\ k = Len(s) \/ s[k + 1] \in whitespace
         IN <<SubSeq(s, 1, n)>> \o split(SubSeq(s, n + 1, Len(s)))

\* sep.join(words)
RECURSIVE join(_, _)
join(sep, words) ==
    IF words = <<>> THEN <<>>
    ELSE IF Len(words) = 1 THEN words[1]
    ELSE words[1] \o sep \o join(sep, Tail(words))

\* str.replace(old, "") for a one-character old
replace(s, old) == SelectSeq(s, LAMBDA c : c # old)

\* int(s) for a str of decimal digits
digit_value(c) == CHOOSE v \in 0..9 : <<"0", "1", "2", "3", "4", "5", "6", "7", "8", "9">>[v + 1] = c

RECURSIVE int(_)
int(s) == IF s = <<>> THEN 0 ELSE 10 * int(SubSeq(s, 1, Len(s) - 1)) + digit_value(s[Len(s)])

\* length of the run of characters satisfying a class from position i, at most cap
RECURSIVE RunLen(_, _, _, _)
RunLen(s, i, class, cap) ==
    IF cap = 0 \/ i > Len(s) \/ s[i] \notin class THEN 0
    ELSE 1 + RunLen(s, i + 1, class, cap - 1)

\* re.compile(r'\b(\d{2}:\d{2})\b').match at position i
TimeAt(s, i) ==
    /\ i + 4 <= Len(s)
    /\ WordBoundary(s, i)
    /\ s[i] \in digits /\ s[i + 1] \in digits
    /\ s[i + 2] = ":"
    /\ s[i + 3] \in digits /\ s[i + 4] \in digits
    /\ WordBoundary(s, i + 5)

\* the least element of a non-empty set of positions
Leftmost(hits) == CHOOSE x \in hits : \A y \in hits : x <= y

\* group(1) of the match at the leftmost of the positions hits, <<>> (None) for no match
TimeGroup(s, hits) == IF hits = {} THEN <<>> ELSE SubSeq(s, Leftmost(hits), Leftmost(hits) + 4)

\* time_pattern.search(text_clean)
time_pattern_search(s) == TimeGroup(s, {i \in 1..Len(s) : TimeAt(s, i)})

\* The ways r'\b([A-Z]{1,3})?\s*(\d{3,4})\b' matches at position i: k prefix
\* letters, w whitespace characters, d digits.
FlightAlternatives(s, i) ==
    IF ~WordBoundary(s, i) THEN {}
    ELSE UNION {UNION {{[k |-> k, w |-> w, d |-> d] :
                           d \in {n \in {3, 4} :
                                    /\ n <= RunLen(s, i + k + w, digits, 4)
                                    /\ WordBoundary(s, i + k + w + n)}} :
                       w \in 0..RunLen(s, i + k, whitespace, Len(s))} :
                k \in 0..RunLen(s, i, AZ, 3)}

\* The alternative the backtracking matcher finds first: every quantifier is
\* greedy, so the longest prefix, then the longest whitespace, then the most digits.
FlightPreferred(alts) ==
    CHOOSE a \in alts : \A b \in alts :
        \/ a.k > b.k
        \/ a.k = b.k /\ a.w > b.w
        \/ a.k = b.k /\ a.w = b.w /\ a.d >= b.d

\* the match object of alternative a at position i: (group(1) or "", group(2)), and its end
FlightMatch(s, i, a) ==
    [prefixo |-> SubSeq(s, i, i + a.k - 1),
     numero |-> SubSeq(s, i + a.k + a.w, i + a.k + a.w + a.d - 1),
     end |-> i + a.k + a.w + a.d]

\* flight_pattern.finditer(text_clean) from position i: the non-overlapping
\* matches, left to right
RECURSIVE flight_pattern_finditer(_, _)
RECURSIVE FlightScan(_, _, _)
FlightScan(s, i, alts) ==
    IF alts = {} THEN flight_pattern_finditer(s, i + 1)
    ELSE <<FlightMatch(s, i, FlightPreferred(alts))>>
         \o flight_pattern_finditer(s, FlightMatch(s, i, FlightPreferred(alts)).end)

flight_pattern_finditer(s, i) ==
    IF i > Len(s) THEN <<>> ELSE FlightScan(s, i, FlightAlternatives(s, i))

(***************************************************************************)
(* config.py and validators.py: the dictionaries of the parse.             *)
(***************************************************************************)
NA == <<"N", "/", "A">>

\* the carrier names the code writes as literals
CARRIER ==
    [AVIANCA |-> <<"A", "V", "I", "A", "N", "C", "A">>,
     LATAM |-> <<"L", "A", "T", "A", "M">>,
     TAM |-> <<"T", "A", "M">>,
     GOL |-> <<"G", "O", "L">>,
     AZUL |-> <<"A", "Z", "U", "L">>,
     EMIRATES |-> <<"E", "M", "I", "R", "A", "T", "E", "S">>,
     DELTA |-> <<"D", "E", "L", "T", "A">>,
     TAP |-> <<"T", "A", "P">>,
     KLM |-> <<"K", "L", "M">>,
     UNITED |-> <<"U", "N", "I", "T", "E", "D">>,
     COPA |-> <<"C", "O", "P", "A">>,
     LUFTHANSA |-> <<"L", "U", "F", "T", "H", "A", "N", "S", "A">>,
     TURKISH |-> <<"T", "U", "R", "K", "I", "S", "H">>,
     BRITISH |-> <<"B", "R", "I", "T", "I", "S", "H">>,
     AMERICAN |-> <<"A", "M", "E", "R", "I", "C", "A", "N">>,
     AIRFRANCE |-> <<"A", "I", "R", "F", "R", "A", "N", "C", "E">>,
     AIR_FRANCE |-> <<"A", "I", "R", " ", "F", "R", "A", "N", "C", "E">>,
     AIRLINES |-> <<" ", "A", "I", "R", "L", "I", "N", "E", "S">>,
     AIRWAYS |-> <<" ", "A", "I", "R", "W", "A", "Y", "S">>,
     AIR_PORTUGAL |-> <<" ", "A", "I", "R", " ", "P", "O", "R", "T", "U", "G", "A", "L">>,
     AEROLINEAS_ARGENTINAS |-> <<"A", "E", "R", "O", "L", "I", "N", "E", "A", "S", " ",
                                 "A", "R", "G", "E", "N", "T", "I", "N", "A", "S">>]

COMPANHIAS_CONHECIDAS ==
    {CARRIER.LATAM, CARRIER.TAM, CARRIER.GOL, CARRIER.AZUL, CARRIER.EMIRATES,
     CARRIER.TURKISH, CARRIER.TURKISH \o CARRIER.AIRLINES,
     CARRIER.BRITISH, CARRIER.BRITISH \o CARRIER.AIRWAYS,
     CARRIER.AIR_FRANCE, CARRIER.AIRFRANCE, CARRIER.KLM, CARRIER.LUFTHANSA,
     CARRIER.AMERICAN, CARRIER.AMERICAN \o CARRIER.AIRLINES,
     CARRIER.DELTA, CARRIER.UNITED, CARRIER.TAP, CARRIER.TAP \o CARRIER.AIR_PORTUGAL}

\* PREFIX_TO_COMPANY, the entries of the carriers above; the keys "G3" and "A6"
\* hold a digit, which [A-Z]{1,3} never captures
PREFIX_TO_COMPANY ==
    << <<(<<"T", "P">>), CARRIER.TAP>>,
       <<(<<"A", "D">>), CARRIER.AZUL>>,
       <<(<<"G", "3">>), CARRIER.GOL>>,
       <<(<<"L", "A">>), CARRIER.LATAM>>,
       <<(<<"J", "J">>), CARRIER.LATAM>>,
       <<(<<"L", "P">>), CARRIER.LATAM>>,
       <<(<<"A", "R">>), CARRIER.AEROLINEAS_ARGENTINAS>>,
       <<(<<"A", "A">>), CARRIER.AMERICAN \o CARRIER.AIRLINES>>,
       <<(<<"D", "L">>), CARRIER.DELTA>>,
       <<(<<"U", "A">>), CARRIER.UNITED>>,
       <<(<<"A", "F">>), CARRIER.AIR_FRANCE>>,
       <<(<<"K", "L">>), CARRIER.KLM>>,
       <<(<<"L", "H">>), CARRIER.LUFTHANSA>>,
       <<(<<"B", "A">>), CARRIER.BRITISH \o CARRIER.AIRWAYS>>,
       <<(<<"T", "K">>), CARRIER.TURKISH \o CARRIER.AIRLINES>>,
       <<(<<"E", "K">>), CARRIER.EMIRATES>>,
       <<(<<"C", "M">>), CARRIER.COPA>>,
       <<(<<"A", "V">>), CARRIER.AVIANCA>>,
       <<(<<"A">>), CARRIER.AVIANCA>>,
       <<(<<"B">>), CARRIER.AZUL>>,
       <<(<<"C">>), CARRIER.COPA>> >>

\* KNOWN_CITIES: an excerpt, in the list's order
KNOWN_CITIES ==
    << <<"B", "r", "a", "s", "i'", "l", "i", "a">>,
       <<"B", "S", "B">>,
       <<"R", "i", "o", " ", "d", "e", " ", "J", "a", "n", "e", "i", "r", "o">>,
       <<"G", "I", "G">>,
       <<"M", "C", "Z">>,
       <<"B", "o", "g", "o", "t", "a'">>,
       <<"B", "O", "G">>,
       <<"M", "A", "D">> >>

\* STATUS_ALVO, the default of target_statuses
STATUS_ALVO ==
    << <<"E", "m", "b", "a", "r", "q", "u", "e", " ", "P", "r", "o'", "x", "i", "m", "o">>,
       <<"I", "m", "e", "d", "i", "a", "t", "o", " ", "E", "m", "b", "a", "r", "q", "u", "e">>,
       <<"U'", "l", "t", "i", "m", "a", " ", "C", "h", "a", "m", "a", "d", "a">>,
       <<"V", "o", "o", " ", "e", "n", "c", "e", "r", "r", "a", "d", "o">>,
       <<"C", "o", "n", "f", "i", "r", "m", "a", "d", "o">>,
       <<"C", "a", "n", "c", "e", "l", "a", "d", "o">> >>

\* dict.get: the value of the pair whose key is k, <<>> (None) without one
Get(table, k) ==
    IF \E i \in DOMAIN table : table[i][1] = k
       THEN table[CHOOSE i \in DOMAIN table : table[i][1] = k][2]
       ELSE <<>>

\* CompanyIdentifier.from_prefix; <<>> is None
from_prefix(voo_prefixo) ==
    IF voo_prefixo = <<>> THEN <<>> ELSE Get(PREFIX_TO_COMPANY, upper(voo_prefixo))

\* the first carrier of priority_order that the list holds
Prioritized(priority_order, companies_list) ==
    priority_order[CHOOSE i \in DOMAIN priority_order :
                       /\ priority_order[i] \in Range(companies_list)
                       /\ \A j \in 1..(i - 1) : priority_order[j] \notin Range(companies_list)]

\* the rules of prioritize_by_number for the number voo_num
by_number(voo_num, companies_list) ==
    IF companies_list = <<>> THEN
          IF 200 <= voo_num /\ voo_num <= 299 THEN CARRIER.AVIANCA
          ELSE IF 1000 <= voo_num /\ voo_num <= 1999 THEN CARRIER.GOL
          ELSE IF 6000 <= voo_num /\ voo_num <= 6999 THEN CARRIER.GOL
          ELSE IF 9000 <= voo_num /\ voo_num <= 9999 THEN CARRIER.GOL
          ELSE IF 2000 <= voo_num /\ voo_num <= 2999 THEN CARRIER.AZUL
          ELSE IF 4000 <= voo_num /\ voo_num <= 5999 THEN CARRIER.AZUL
          ELSE IF 8000 <= voo_num /\ voo_num <= 8899 THEN CARRIER.AZUL
          ELSE IF 3000 <= voo_num /\ voo_num <= 4999 THEN CARRIER.LATAM
          ELSE IF 7000 <= voo_num /\ voo_num <= 7999 THEN CARRIER.LATAM
          ELSE IF 8900 <= voo_num /\ voo_num <= 8999 THEN CARRIER.LATAM
          ELSE NA
    ELSE LET has(c) == c \in Range(companies_list)
             priority_order == <<CARRIER.AEROLINEAS_ARGENTINAS, CARRIER.KLM,
                                 CARRIER.AIR_FRANCE, CARRIER.DELTA>>
         IN
       IF Len(companies_list) = 1 THEN companies_list[1]
       ELSE IF 1000 <= voo_num /\ voo_num <= 2999
               /\ Range(priority_order) \cap Range(companies_list) # {}
            THEN Prioritized(priority_order, companies_list)
       ELSE IF 3000 <= voo_num /\ voo_num <= 4999 /\ has(CARRIER.LATAM) THEN CARRIER.LATAM
       ELSE IF 6000 <= voo_num /\ voo_num <= 6999 /\ has(CARRIER.GOL) THEN CARRIER.GOL
       ELSE IF 6000 <= voo_num /\ voo_num <= 6999 /\ has(CARRIER.DELTA) THEN CARRIER.DELTA
       ELSE IF voo_num >= 8000 /\ has(CARRIER.LATAM) THEN CARRIER.LATAM
       ELSE IF voo_num >= 8000 /\ has(CARRIER.KLM) THEN CARRIER.KLM
       ELSE IF voo_num >= 8000 /\ has(CARRIER.AIR_FRANCE) THEN CARRIER.AIR_FRANCE
       ELSE IF voo_num >= 8000 /\ has(CARRIER.BRITISH \o CARRIER.AIRWAYS)
            THEN CARRIER.BRITISH \o CARRIER.AIRWAYS
       ELSE IF has(CARRIER.DELTA) /\ ((1000 <= voo_num /\ voo_num <= 2999) \/ voo_num >= 8000)
            THEN CARRIER.DELTA
       ELSE companies_list[1]

\* CompanyIdentifier.prioritize_by_number(voo, companies_list); int(voo) raises
\* for a voo that is no number, and the except clause answers
prioritize_by_number(voo, companies_list) ==
    IF voo # <<>> /\ Range(voo) \subseteq digits THEN by_number(int(voo), companies_list)
    ELSE IF companies_list # <<>> THEN companies_list[1]
    ELSE NA

(***************************************************************************)
(* FlightDataProcessor.extract_from_text                                   *)
(***************************************************************************)
None == [none |-> TRUE]

\* first element of seq at one of the positions hits, <<>> (None) without one
FirstAt(seq, hits) == IF hits = {} THEN <<>> ELSE seq[Leftmost(hits)]

\* 'for x in seq: if key(x) in hay: ...; break', keys[i] being seq[i].upper() or .lower()
FirstIn(seq, keys, hay) == FirstAt(seq, {i \in DOMAIN seq : Contains(hay, keys[i])})

\* 'x or "N/A"' for a str x
OrNA(x) == IF x = <<>> THEN NA ELSE x

\* text_clean = " ".join(text.split())
clean(chars) == join(<<" ">>, split(chars))

\* Level 1 of the carrier cascade: the names looked up in the text itself
direct_text(text_upper) ==
    IF Contains(text_upper, CARRIER.AVIANCA) THEN CARRIER.AVIANCA
    ELSE IF Contains(text_upper, CARRIER.LATAM) \/ Contains(text_upper, CARRIER.TAM)
         THEN CARRIER.LATAM
    ELSE IF Contains(text_upper, CARRIER.GOL) THEN CARRIER.GOL
    ELSE IF Contains(text_upper, CARRIER.AZUL) THEN CARRIER.AZUL
    ELSE IF Contains(text_upper, CARRIER.EMIRATES) THEN CARRIER.EMIRATES
    ELSE NA

\* Level 2: the flight prefix
prefix_level(prefixo, companhia_prefixo) ==
    IF prefixo # <<>> /\ companhia_prefixo # <<>> THEN companhia_prefixo ELSE NA

\* Level 3: the numeric range, tried when the prefix gave nothing
range_level(companhia, companhia_por_numero) ==
    IF companhia = NA /\ companhia_por_numero # <<>> /\ companhia_por_numero # NA
       THEN companhia_por_numero
       ELSE companhia

\* 6. the carrier cascade
cascade(companhia_texto, prefixo, numero) ==
    IF companhia_texto # NA THEN companhia_texto
    ELSE range_level(prefix_level(prefixo, from_prefix(prefixo)),
                     prioritize_by_number(numero, <<>>))

\* 7. 'if status_encontrado: return {...}', else None.  Snapshot_Time, the wall
\* clock of the call, is left out of the record.
extract_final(horario_previsto, status_encontrado, prefixo, numero, destino, companhia) ==
    IF status_encontrado = <<>>
       THEN [raised |-> FALSE, exit |-> "no_status", value |-> None]
       ELSE [raised |-> FALSE, exit |-> "record",
             value |-> [Horario |-> horario_previsto,
                        Voo |-> numero,
                        Voo_Completo |-> IF prefixo # <<>> THEN prefixo \o numero ELSE numero,
                        Companhia |-> companhia,
                        Destino |-> destino,
                        Status |-> status_encontrado,
                        Terminal |-> NA]]

\* 5. and 6. destination and carrier for the chosen flight
extract_fields(text_upper, horario_previsto, status_encontrado, best_flight) ==
    extract_final(horario_previsto, status_encontrado, best_flight.prefixo, best_flight.numero,
                  OrNA(FirstIn(KNOWN_CITIES, [i \in DOMAIN KNOWN_CITIES |-> upper(KNOWN_CITIES[i])],
                               text_upper)),
                  cascade(direct_text(text_upper), best_flight.prefixo, best_flight.numero))

\* 4. the first flight candidate, None without one
extract_flight(text_clean, horario_previsto, status_encontrado, candidates) ==
    IF candidates = <<>>
       THEN [raised |-> FALSE, exit |-> "no_flight", value |-> None]
       ELSE extract_fields(upper(text_clean), horario_previsto, status_encontrado, candidates[1])

\* 2. to 4. the time anchor, the status, the flight candidates whose digits are
\* not those of the time
extract_time(text_clean, horario_previsto) ==
    IF horario_previsto = <<>>
       THEN [raised |-> FALSE, exit |-> "no_time", value |-> None]
       ELSE extract_flight(text_clean, horario_previsto,
                           FirstIn(STATUS_ALVO, [i \in DOMAIN STATUS_ALVO |-> lower(STATUS_ALVO[i])],
                                   lower(text_clean)),
                           SelectSeq(flight_pattern_finditer(text_clean, 1),
                                     LAMBDA m : m.numero # replace(horario_previsto, ":")))

\* 1. 'if not text_clean or len(text_clean) < 10: return None'
extract_clean(text_clean) ==
    IF Len(text_clean) < MinTextLen
       THEN [raised |-> FALSE, exit |-> "short", value |-> None]
       ELSE extract_time(text_clean, time_pattern_search(text_clean))

\* The body of the try block.  exit names the return statement taken; raised
\* says that an exception left the block instead.  text.split() raises
\* AttributeError for a text that is no str.
extract_try(text) ==
    IF ~text.is_str THEN [raised |-> TRUE, exit |-> "split", value |-> None]
    ELSE extract_clean(clean(text.chars))

\* 'except Exception: ... return None'
except_none(r) == IF r.raised THEN [raised |-> FALSE, exit |-> "except", value |-> None] ELSE r

\* the try block without its except clause
extract_from_text_without_except(text) == extract_try(text)

extract_from_text(text) == except_none(extract_try(text))

\* Row texts: words of Vocab, or words of StatusVocab, separated by whitespace,
\* and a value that is no str.
Vocab ==
    {<<"1", "0", ":", "0", "0">>,
     <<"9", ":", "0", "5">>,
     <<"1", "0", "0", "0">>,
     <<"5", "1", "2">>,
     <<"L", "A", "3", "0", "3", "0">>,
     <<"D", "E", "L", "T", "A">>,
     <<"G", "O", "L">>,
     <<"B", "S", "B">>,
     <<"C", "a", "n", "c", "e", "l", "a", "d", "o">>}

\* the words of the status "Embarque Pro'ximo", with and without the accent
StatusVocab ==
    {<<"1", "0", ":", "0", "0">>,
     <<"5", "1", "2">>,
     <<"E", "m", "b", "a", "r", "q", "u", "e">>,
     <<"P", "r", "o'", "x", "i", "m", "o">>,
     <<"P", "r", "o", "x", "i", "m", "o">>}

separators == {<<" ">>, <<" ", "\n">>}

RowTexts ==
    {[is_str |-> TRUE, chars |-> join(sep, ws)] :
        ws \in UNION {[1..n -> Vocab] \cup [1..n -> StatusVocab] : n \in 0..MaxWords},
        sep \in separators}
    \cup {[is_str |-> FALSE, chars |-> <<>>]}

NoOutcome == [raised |-> FALSE, exit |-> "pending", value |-> None]

ParseIdle ==
    /\ ppc = "idle"
    /\ row_text = [is_str |-> TRUE, chars |-> <<>>]
    /\ parse_out = NoOutcome

ParseInit ==
    /\ ppc = "call"
    /\ row_text \in RowTexts
    /\ parse_out = NoOutcome

\* flight_data = self.extract_from_text(row_text)
ParseRow ==
    /\ ppc = "call"
    /\ parse_out' = extract_from_text(row_text)
    /\ ppc' = "returned"
    /\ UNCHANGED <<row_text, notParseVars>>

ParseNext == ParseRow

(***************************************************************************)
(* FlightDataProcessor.extract_from_snapshot: the loop over row_texts      *)
(***************************************************************************)
\* str.strip()
RECURSIVE lstrip(_)
lstrip(s) == IF s # <<>> /\ s[1] \in whitespace THEN lstrip(Tail(s)) ELSE s

RECURSIVE rstrip(_)
rstrip(s) ==
    IF s # <<>> /\ s[Len(s)] \in whitespace THEN rstrip(SubSeq(s, 1, Len(s) - 1)) ELSE s

strip(s) == rstrip(lstrip(s))

\* row texts a snapshot can hold (each longer than 10 characters, stripped)
SnapTexts ==
    {<<"1", "0", ":", "0", "0", " ", "5", "1", "2", " ",
       "C", "a", "n", "c", "e", "l", "a", "d", "o">>,
     <<"1", "0", ":", "0", "0", " ", "G", "O", "L", " ", "5", "1", "2", " ",
       "C", "a", "n", "c", "e", "l", "a", "d", "o">>,
     <<"1", "0", ":", "0", "0", " ", "L", "A", "3", "0", "3", "0", " ",
       "C", "a", "n", "c", "e", "l", "a", "d", "o">>,
     <<"9", ":", "0", "5", " ", "5", "1", "2", " ",
       "C", "a", "n", "c", "e", "l", "a", "d", "o">>,
     <<"1", "1", ":", "3", "0", " ", "L", "A", "3", "0", "3", "0", " ", "M", "C", "Z", " ",
       "C", "a", "n", "c", "e", "l", "a", "d", "o">>}

\* a captured row: its text, and whether something in the try block raises for it
SnapRows == [text : SnapTexts, raises : BOOLEAN]

\* the loop's locals before the first iteration
LoopStart == [seen_flights |-> {}, all_flights_raw |-> <<>>, invalid_count |-> 0, descartados |-> 0]

\* accept_unique counting a row with a key already seen among the discarded
accept_unique_counts_duplicate(st, flight_data, unique_key) ==
    IF unique_key \in st.seen_flights THEN [st EXCEPT !.descartados = @ + 1]
    ELSE [st EXCEPT !.seen_flights = @ \cup {unique_key},
                    !.all_flights_raw = Append(@, flight_data)]

\* 'if unique_key in seen_flights: continue', else the record is accepted
accept_unique(st, flight_data, unique_key) ==
    IF unique_key \in st.seen_flights THEN st
    ELSE [st EXCEPT !.seen_flights = @ \cup {unique_key},
                    !.all_flights_raw = Append(@, flight_data)]

\* 'if not voo or not horario_previsto', for the stripped number and time
accept_complete(st, flight_data, voo, horario_previsto) ==
    IF voo = <<>> \/ horario_previsto = <<>>
       THEN [st EXCEPT !.descartados = @ + 1]
       ELSE accept_unique(st, flight_data, voo \o <<"|">> \o horario_previsto)

\* 'if flight_data: if flight_data.get('Voo') and flight_data.get('Status')';
\* the record holds no Horario_Previsto, so the key takes Horario
accept_row(st, flight_data) ==
    IF flight_data = None THEN [st EXCEPT !.descartados = @ + 1]
    ELSE IF flight_data.Voo = <<>> \/ flight_data.Status = <<>>
       THEN [st EXCEPT !.descartados = @ + 1]
    ELSE accept_complete(st, flight_data, strip(flight_data.Voo), strip(flight_data.Horario))

\* One iteration of 'for row_text in row_texts': the try block and its except.
process_row(st, row) ==
    IF row.raises THEN [st EXCEPT !.invalid_count = @ + 1]
    ELSE accept_row(st, extract_from_text([is_str |-> TRUE, chars |-> row.text]).value)

\* the whole loop over a list of rows
RECURSIVE snapshot_loop(_, _)
snapshot_loop(st, rows) ==
    IF rows = <<>> THEN st ELSE snapshot_loop(process_row(st, rows[1]), Tail(rows))

SnapIdle ==
    /\ spc = "idle"
    /\ snap_rows = <<>>
    /\ snap_i = 1
    /\ seen_flights = {}
    /\ all_flights_raw = <<>>
    /\ invalid_count = 0
    /\ descartados = 0

SnapInit ==
    /\ spc = "loop"
    /\ snap_rows \in UNION {[1..n -> SnapRows] : n \in 0..MaxSnapRows}
    /\ snap_i = 1
    /\ seen_flights = {}
    /\ all_flights_raw = <<>>
    /\ invalid_count = 0
    /\ descartados = 0

\* the loop's locals now
LoopLocals ==
    [seen_flights |-> seen_flights, all_flights_raw |-> all_flights_raw,
     invalid_count |-> invalid_count, descartados |-> descartados]

\* an exception of one row leaves the loop, and with it extract_from_snapshot
ProcessRow_error_leaves_loop ==
    /\ spc = "loop"
    /\ snap_i <= Len(snap_rows)
    /\ IF snap_rows[snap_i].raises
          THEN /\ spc' = "raised"
               /\ UNCHANGED <<snap_i, seen_flights, all_flights_raw, invalid_count, descartados>>
          ELSE \E st \in {process_row(LoopLocals, snap_rows[snap_i])} :
                  /\ seen_flights' = st.seen_flights
                  /\ all_flights_raw' = st.all_flights_raw
                  /\ invalid_count' = st.invalid_count
                  /\ descartados' = st.descartados
                  /\ snap_i' = snap_i + 1
                  /\ UNCHANGED spc
    /\ UNCHANGED <<snap_rows, notSnapVars>>

\* the loop body applied to the next row
ProcessRow ==
    /\ spc = "loop"
    /\ snap_i <= Len(snap_rows)
    /\ \E st \in {process_row(LoopLocals, snap_rows[snap_i])} :
          /\ seen_flights' = st.seen_flights
          /\ all_flights_raw' = st.all_flights_raw
          /\ invalid_count' = st.invalid_count
          /\ descartados' = st.descartados
    /\ snap_i' = snap_i + 1
    /\ UNCHANGED <<spc, snap_rows, notSnapVars>>

\* duplicates_removed = len(row_texts) - len(all_flights_raw) - invalid_count - descartados
duplicates_removed == Len(snap_rows) - Len(all_flights_raw) - invalid_count - descartados

\* the loop is over: 'return all_flights_raw'
SnapshotReturn ==
    /\ spc = "loop"
    /\ snap_i > Len(snap_rows)
    /\ spc' = "returned"
    /\ UNCHANGED <<snap_rows, snap_i, seen_flights, all_flights_raw, invalid_count,
                   descartados, notSnapVars>>

SnapNext == ProcessRow \/ SnapshotReturn

(***************************************************************************)
(* validators.py and config.py: what save_to_csv and consolidate_codeshare *)
(* call                                                                    *)
(***************************************************************************)
\* ord(c): the rank of c among the characters of the model in code-point order
ord ==
    LET table == <<" ", ",", "/", "0", "1", "2", "3", "4", "5", "6", "7", "8", "9", ":">>
                     \o ascii_uppercase \o <<"_">> \o ascii_lowercase
                     \o <<"A'", "A~", "C,", "E'", "I'", "O'", "U'",
                          "a'", "a~", "c,", "e'", "i'", "o'", "u'">>
    IN [c \in Range(table) |-> CHOOSE i \in DOMAIN table : table[i] = c]

\* a < b for two strs
str_lt(a, b) ==
    \E i \in 1..(Len(b)) :
        /\ \A j \in 1..(i - 1) : j <= Len(a) /\ a[j] = b[j]
        /\ i > Len(a) \/ ord[a[i]] < ord[b[i]]

\* a < b for two tuples of two strs
key_lt(a, b) == str_lt(a[1], b[1]) \/ (a[1] = b[1] /\ str_lt(a[2], b[2]))

\* sorted(S) for a set of strs
RECURSIVE sorted(_)
sorted(S) ==
    IF S = {} THEN <<>>
    ELSE LET m == CHOOSE x \in S : \A y \in S : ~str_lt(y, x)
         IN <<m>> \o sorted(S \ {m})

\* str.split(sep) for a one-character sep
RECURSIVE split_on(_, _)
split_on(s, sep) ==
    IF \A i \in DOMAIN s : s[i] # sep THEN <<s>>
    ELSE LET n == CHOOSE k \in DOMAIN s : s[k] = sep /\ \A j \in 1..(k - 1) : s[j] # sep
         IN <<SubSeq(s, 1, n - 1)>> \o split_on(SubSeq(s, n + 1, Len(s)), sep)

\* words the code writes as literals
WORD ==
    [SIM |-> <<"S", "I", "M">>,
     NAO |-> <<"N", "A~", "O">>,
     Brasilia |-> <<"B", "r", "a", "s", "i'", "l", "i", "a">>,
     Bogota |-> <<"B", "o", "g", "o", "t", "a'">>,
     Cancelado |-> <<"C", "a", "n", "c", "e", "l", "a", "d", "o">>]

\* NON_CITY_WORDS: an excerpt
NON_CITY_WORDS ==
    {<<"Y", "O", "U", "T", "U", "B", "E">>, <<"D", "E", "T", "A", "L", "H", "E", "S">>,
     <<"D", "E", "T", "A", "L", "H", "E">>, <<"A", "E", "N", "A">>,
     <<"T", "E", "R", "M", "I", "N", "A", "L">>, <<"V", "O", "L", "T", "A", "R">>,
     <<"C", "I", "A">>, <<"S", "K", "Y">>, <<"E", "M", "B", "A", "R", "Q", "U", "E">>,
     <<"A", "E", "R", "O", "P", "O", "R", "T", "O">>, <<"I", "N", "I", "C", "I", "A", "L">>,
     <<"P", "A", "G", "I", "N", "A">>, NA, <<"G", "R", "U">>}

INVALID_IATA_CODES ==
    {<<"C", "I", "A">>, <<"S", "K", "Y">>, <<"A", "P", "I">>, <<"C", "S", "S">>,
     <<"H", "T", "M", "L">>, <<"J", "P", "G">>, <<"P", "N", "G">>, <<"S", "V", "G">>,
     <<"T", "A", "P">>, NA}

\* AIRPORT_DICT: an excerpt
AIRPORT_DICT ==
    << <<(<<"S", "S", "A">>), <<"S", "a", "l", "v", "a", "d", "o", "r">> >>,
       <<(<<"B", "S", "B">>), WORD.Brasilia>>,
       <<(<<"P", "e", "s", "s", "o", "a">>),
         <<"J", "o", "a~", "o", " ", "P", "e", "s", "s", "o", "a">> >>,
       <<(<<"M", "A", "D">>), <<"M", "a", "d", "r", "i", "d">> >>,
       <<(<<"B", "O", "G">>), WORD.Bogota>>,
       <<WORD.Bogota, WORD.Bogota>> >>

\* domestic_cities of is_domestic: an excerpt
domestic_cities ==
    {<<"S", "A", "L", "V", "A", "D", "O", "R">>, upper(WORD.Brasilia),
     <<"R", "I", "O", " ", "D", "E", " ", "J", "A", "N", "E", "I", "R", "O">>,
     <<"J", "O", "A~", "O", " ", "P", "E", "S", "S", "O", "A">>}

\* FlightValidator.is_invalid_destination_for_dedup
is_invalid_destination_for_dedup(destino) ==
    \/ destino = <<>>
    \/ destino = NA
    \/ upper(strip(destino)) \in NON_CITY_WORDS \cup INVALID_IATA_CODES

\* DestinationExtractor.translate
translate(destino) ==
    IF destino = <<>> \/ destino = NA THEN destino
    ELSE IF Len(strip(destino)) = 3 /\ Get(AIRPORT_DICT, upper(strip(destino))) # <<>>
       THEN Get(AIRPORT_DICT, upper(strip(destino)))
    ELSE IF Get(AIRPORT_DICT, strip(destino)) # <<>> THEN Get(AIRPORT_DICT, strip(destino))
    ELSE strip(destino)

\* DestinationExtractor.is_domestic
is_domestic(destino) ==
    IF destino = <<>> \/ destino = NA THEN FALSE
    ELSE \/ \E city \in domestic_cities : Contains(upper(destino), city)
         \/ /\ Contains(upper(destino), <<"R", "I", "O">>)
            /\ Contains(upper(destino), <<"J", "A", "N", "E", "I", "R", "O">>)

\* CompanyIdentifier.choose_main; brazilian is the first company of the list
\* that is one of LATAM, GOL, AZUL, <<>> without one
choose_main(companies_list, destino, voo, voo_prefixo) ==
    LET brazilian ==
            FirstAt(companies_list,
                    {i \in DOMAIN companies_list :
                        companies_list[i] \in {CARRIER.LATAM, CARRIER.GOL, CARRIER.AZUL}})
    IN
    IF companies_list = <<>> THEN NA
    ELSE IF Len(companies_list) = 1 THEN companies_list[1]
    ELSE IF voo_prefixo # <<>> /\ from_prefix(voo_prefixo) # <<>> THEN from_prefix(voo_prefixo)
    ELSE IF is_domestic(destino) /\ brazilian # <<>> THEN brazilian
    ELSE prioritize_by_number(voo, companies_list)

\* int() accepts s: decimal digits, whitespace around them allowed
is_int(s) == strip(s) # <<>> /\ Range(strip(s)) \subseteq digits

\* 'hora, minuto = map(int, h.split(':'))' and 'replace(hour=hora, minute=minuto)'
\* raise nothing for the parts of h
valid_hm(parts) ==
    /\ Len(parts) = 2
    /\ is_int(parts[1]) /\ int(strip(parts[1])) <= 23
    /\ is_int(parts[2]) /\ int(strip(parts[2])) <= 59

\* today's hh:mm in seconds after midnight
seconds_of(parts) == 3600 * int(strip(parts[1])) + 60 * int(strip(parts[2]))

\* 'if estimado < previsto: estimado += 1 day', then estimado - previsto
estimated_delay(previsto, estimado) ==
    IF estimado < previsto THEN estimado + 86400 - previsto ELSE estimado - previsto

\* previsto moved to the day nearest to agora, then agora - previsto
observed_delay(previsto, now) ==
    IF previsto > now + 43200 THEN now - (previsto - 86400)
    ELSE IF previsto < now - 43200 THEN now - (previsto + 86400)
    ELSE now - previsto

\* alerts with the two-hour alert raised at the one-hour threshold
alerts_2h_at_1h(atraso) ==
    [alerta_1h |-> IF atraso > 3600 THEN WORD.SIM ELSE WORD.NAO,
     alerta_2h |-> IF atraso > 3600 THEN WORD.SIM ELSE WORD.NAO,
     atraso_minutos |-> IF atraso > 0 THEN atraso \div 60 ELSE 0]

\* the returned triple for a delay in seconds
alerts(atraso) ==
    [alerta_1h |-> IF atraso > 3600 THEN WORD.SIM ELSE WORD.NAO,
     alerta_2h |-> IF atraso > 7200 THEN WORD.SIM ELSE WORD.NAO,
     atraso_minutos |-> IF atraso > 0 THEN atraso \div 60 ELSE 0]

\* the try block once horario_previsto is known not to be empty or "N/A"
delay_of(previsto_parts, horario_estimado, estimado_parts, now) ==
    IF ~valid_hm(previsto_parts) THEN [alerta_1h |-> WORD.NAO, alerta_2h |-> WORD.NAO, atraso_minutos |-> 0]
    ELSE IF horario_estimado # NA /\ horario_estimado # <<>> /\ valid_hm(estimado_parts)
       THEN alerts(estimated_delay(seconds_of(previsto_parts), seconds_of(estimado_parts)))
    ELSE alerts(observed_delay(seconds_of(previsto_parts), now))

\* calculate_delay_alerts; now is datetime.now() in whole seconds after midnight,
\* read once per call
calculate_delay_alerts(horario_previsto, horario_estimado, now) ==
    IF horario_previsto = NA \/ horario_previsto = <<>>
       THEN [alerta_1h |-> WORD.NAO, alerta_2h |-> WORD.NAO, atraso_minutos |-> 0]
       ELSE delay_of(split_on(horario_previsto, ":"), horario_estimado,
                     split_on(horario_estimado, ":"), now)

\* dict.get(key, default)
get(flight, key, default) == IF key \in DOMAIN flight THEN flight[key] ELSE default

\* VALID_IATA_CODES: an excerpt
VALID_IATA_CODES ==
    {<<"B", "S", "B">>, <<"G", "I", "G">>, <<"S", "S", "A">>, <<"M", "A", "D">>,
     <<"B", "O", "G">>}

\* FlightValidator.is_valid_number
is_valid_number(voo) ==
    /\ voo # <<>>
    /\ voo # NA
    /\ strip(voo) # <<>>
    /\ Range(strip(voo)) \subseteq digits
    /\ Len(strip(voo)) \in 3..4

\* FlightValidator.is_valid_destination
is_valid_destination(destino) ==
    LET destino_upper == upper(strip(destino))
    IN
    IF destino = <<>> \/ destino = NA THEN FALSE
    ELSE IF destino_upper \in NON_CITY_WORDS THEN FALSE
    ELSE IF \E invalid \in NON_CITY_WORDS : Contains(destino_upper, invalid) THEN FALSE
    ELSE IF destino_upper \in COMPANHIAS_CONHECIDAS THEN FALSE
    ELSE IF Len(strip(destino)) = 3
            /\ Range(destino_upper) \subseteq AZ \cup Range(accent_uppercase)
       THEN destino_upper \notin INVALID_IATA_CODES /\ destino_upper \in VALID_IATA_CODES
    ELSE IF Len(strip(destino)) < 3 THEN FALSE
    ELSE destino_upper \notin {<<"E", "M", "B", "A", "R", "Q", "U", "E">>,
                             <<"E", "M", "B", "A", "R", "Q", "U", "E", " ", "P", "R", "O'", "X", "I", "M", "O">>,
                             <<"E", "M", "B", "A", "R", "Q", "U", "E", " ", "P", "R", "O", "X", "I", "M", "O">>}

\* validate without its fourth test, the one of destino against status
validate_without_column_check(flight_data) ==
    LET voo == strip(get(flight_data, "Voo", <<>>))
        destino == strip(get(flight_data, "Destino", <<>>))
        status == strip(get(flight_data, "Status", <<>>))
        letters == RunLen(voo, 1, AZ, 3)
        rest == SubSeq(voo, letters + 1, Len(voo))
        voo_clean == IF letters >= 1 /\ Len(rest) \in 3..4 /\ Range(rest) \subseteq digits
                     THEN rest ELSE voo
    IN
    IF DOMAIN flight_data = {} THEN FALSE
    ELSE IF ~is_valid_number(voo_clean) THEN FALSE
    ELSE IF status = <<>> \/ status = NA THEN FALSE
    ELSE IF destino # NA /\ ~is_valid_destination(destino) THEN FALSE
    ELSE TRUE

\* FlightValidator.validate; letters is the length of the match of ^[A-Z]{1,3}
validate(flight_data) ==
    LET voo == strip(get(flight_data, "Voo", <<>>))
        destino == strip(get(flight_data, "Destino", <<>>))
        status == strip(get(flight_data, "Status", <<>>))
        letters == RunLen(voo, 1, AZ, 3)
        rest == SubSeq(voo, letters + 1, Len(voo))
        voo_clean == IF letters >= 1 /\ Len(rest) \in 3..4 /\ Range(rest) \subseteq digits
                     THEN rest ELSE voo
    IN
    IF DOMAIN flight_data = {} THEN FALSE
    ELSE IF ~is_valid_number(voo_clean) THEN FALSE
    ELSE IF status = <<>> \/ status = NA THEN FALSE
    ELSE IF destino # NA /\ ~is_valid_destination(destino) THEN FALSE
    ELSE IF upper(destino) = upper(status) THEN FALSE
    ELSE upper(destino) \notin {<<"E", "M", "B", "A", "R", "Q", "U", "E">>,
                             <<"E", "M", "B", "A", "R", "Q", "U", "E", " ", "P", "R", "O'", "X", "I", "M", "O">>,
                             <<"E", "M", "B", "A", "R", "Q", "U", "E", " ", "P", "R", "O", "X", "I", "M", "O">>}

(***************************************************************************)
(* FlightDataProcessor.save_to_csv and consolidate_codeshare               *)
(***************************************************************************)

\* flight.get('Horario_Previsto') or flight.get('Horario', '')
horario_of(flight) ==
    IF get(flight, "Horario_Previsto", <<>>) # <<>> THEN flight["Horario_Previsto"]
    ELSE get(flight, "Horario", <<>>)

\* the dict of lines 862-877; databusca, Data and Status_Monitoramento, the same
\* in every row of a call, are left out
flight_data(flight, voo, horario_previsto, horario_estimado, delay, destino) ==
    [Horario_Previsto |-> strip(horario_previsto),
     Horario_Estimado |-> horario_estimado,
     Voo |-> strip(voo),
     Voo_Completo |-> strip(get(flight, "Voo_Completo", voo)),
     Voo_Prefixo |-> strip(get(flight, "Voo_Prefixo", <<>>)),
     Companhia |-> strip(get(flight, "Companhia", NA)),
     Companhia_Imagem |-> strip(get(flight, "Companhia_Imagem", <<>>)),
     Destino |-> strip(translate(IF destino \in COMPANHIAS_CONHECIDAS THEN NA ELSE destino)),
     Status |-> strip(get(flight, "Status", NA)),
     Alerta_1H |-> delay.alerta_1h,
     Alerta_2H |-> delay.alerta_2h]

\* 'if not voo or voo == "N/A" or not horario_previsto or ...: continue'
keep_complete(flight, voo, horario_previsto, horario_estimado, now) ==
    IF voo = <<>> \/ voo = NA \/ horario_previsto = <<>> \/ horario_previsto = NA THEN <<>>
    ELSE <<flight_data(flight, voo, horario_previsto, horario_estimado,
                       calculate_delay_alerts(horario_previsto, horario_estimado, now),
                       strip(get(flight, "Destino", NA)))>>

\* one iteration of 'for flight in scraped_flights': the rows it appends
flight_rows(flight, now) ==
    keep_complete(flight, strip(get(flight, "Voo", <<>>)), strip(horario_of(flight)),
                  strip(get(flight, "Horario_Estimado", NA)), now)

\* flights_to_save after the loop
RECURSIVE build_rows(_, _)
build_rows(flights_in, now) ==
    IF flights_in = <<>> THEN <<>>
    ELSE flight_rows(flights_in[1], now) \o build_rows(Tail(flights_in), now)

\* pandas: the rows of df whose group key is k, in df's order
RECURSIVE rows_with_key(_, _, _)
rows_with_key(rows, keys, k) ==
    IF rows = <<>> THEN <<>>
    ELSE (IF keys[1] = k THEN <<rows[1]>> ELSE <<>>) \o rows_with_key(Tail(rows), Tail(keys), k)

\* pandas: the group keys in ascending order (groupby sorts)
RECURSIVE sorted_keys(_)
sorted_keys(S) ==
    IF S = {} THEN <<>>
    ELSE LET m == CHOOSE x \in S : \A y \in S : ~key_lt(y, x)
         IN <<m>> \o sorted_keys(S \ {m})

groups_in_order(rows, keys, order) == [g \in DOMAIN order |-> rows_with_key(rows, keys, order[g])]

\* df.groupby([a, b]): the groups, keys[i] being the key of row i
groupby(rows, keys) == groups_in_order(rows, keys, sorted_keys(Range(keys)))

\* pd.concat of the frames apply collected
RECURSIVE concat(_)
concat(frames) == IF frames = <<>> THEN <<>> ELSE frames[1] \o concat(Tail(frames))

\* list(dict.fromkeys(seq)) / Series.unique(): first occurrences, in order
RECURSIVE unique(_)
unique(seq) ==
    IF seq = <<>> THEN <<>>
    ELSE LET rest == unique(SubSeq(seq, 1, Len(seq) - 1))
         IN IF seq[Len(seq)] \in Range(rest) THEN rest ELSE Append(rest, seq[Len(seq)])

\* keep_best_row of save_to_csv: 'valid_destinations.iloc[[0]]' if there is one,
\* else 'group.iloc[[0]]'
keep_best_row(group) ==
    IF Len(group) = 1 THEN group
    ELSE LET valid_destinations ==
                 SelectSeq(group, LAMBDA r : ~is_invalid_destination_for_dedup(r.Destino))
         IN IF valid_destinations # <<>> THEN <<valid_destinations[1]>> ELSE <<group[1]>>

\* groupby(...).apply(keep_best_row): pandas concatenates the results in group
\* order, unless every result has the index of its group, and then the rows keep
\* df's order
dedupe_groups(rows, groups) ==
    IF \A g \in DOMAIN groups : Len(groups[g]) = 1 THEN rows
    ELSE concat([g \in DOMAIN groups |-> keep_best_row(groups[g])])

\* lines 905-906
dedupe(rows) ==
    dedupe_groups(rows, groupby(rows, [i \in DOMAIN rows |-> <<rows[i].Voo, rows[i].Horario_Previsto>>]))

\* lines 924-927: the text before the first '/', stripped (the pattern of line
\* 925 needs a '/' and finds none); "N", "n", "nan", "None" and "" become "N/A"
clean_companhia(first_part) ==
    IF first_part \in {<<"N">>, <<"n">>, <<"n", "a", "n">>, <<"N", "o", "n", "e">>, <<>>}
       THEN NA ELSE first_part

\* lines 914-927 for one row
clean_row(r) ==
    [k \in DOMAIN r |->
        IF k = "Destino" THEN translate(strip(r[k]))
        ELSE IF k = "Companhia" THEN clean_companhia(strip(split_on(strip(r[k]), "/")[1]))
        ELSE strip(r[k])]

\* the keys of consolidate_codeshare's groupby
consolidation_keys(rows) == [i \in DOMAIN rows |-> <<rows[i].Horario_Previsto, rows[i].Destino>>]

\* 'not c or c == "N/A"' filtered out
named(seq) == SelectSeq(seq, LAMBDA c : c # <<>> /\ c # NA)

\* the set that line 744 turns into a list
company_set(group) ==
    Range(named([i \in DOMAIN group |-> group[i].Companhia]))
        \cup Range(named([i \in DOMAIN group |-> group[i].Companhia_Imagem]))

\* list(set(...)): the elements in an order of the interpreter's choosing
Perms(S) == {p \in [1..Cardinality(S) -> S] : Range(p) = S}

\* lines 750-761
all_prefixos_of(group) ==
    unique(SelectSeq([i \in DOMAIN group |-> strip(group[i].Voo_Prefixo)],
                     LAMBDA prefixo : prefixo # <<>> /\ from_prefix(prefixo) # <<>>))

\* lines 781-794
voo_final(voo_principal, prefixo_rows, main_company_rows) ==
    IF prefixo_rows # <<>> THEN prefixo_rows[1].Voo
    ELSE IF main_company_rows # <<>> THEN main_company_rows[1].Voo
    ELSE voo_principal

\* consolidated_row with the main carrier left among its partners
consolidated_row_with_main_as_partner(group, all_companies, voo_principal, prefixo_principal, main_company, horarios_validos) ==
    [Horario_Previsto |-> group[1].Horario_Previsto,
     Horario_Estimado |-> group[1].Horario_Estimado,
     Voo |-> voo_principal,
     Companhia |-> main_company,
     Parceiras |-> join(<<",", " ">>, sorted(Range(all_companies))),
     Destino |-> group[1].Destino,
     Status |-> group[1].Status,
     Alerta_1H |-> group[1].Alerta_1H,
     Alerta_2H |-> group[1].Alerta_2H]

\* lines 778-813
consolidated_row(group, all_companies, voo_principal, prefixo_principal, main_company, horarios_validos) ==
    [Horario_Previsto |-> group[1].Horario_Previsto,
     Horario_Estimado |-> IF horarios_validos # <<>> THEN horarios_validos[1]
                          ELSE group[1].Horario_Estimado,
     Voo |-> voo_final(voo_principal,
                       IF prefixo_principal = <<>> THEN <<>>
                       ELSE SelectSeq(group, LAMBDA r : r.Voo_Prefixo = prefixo_principal),
                       SelectSeq(group, LAMBDA r : r.Companhia = main_company)),
     Companhia |-> main_company,
     Parceiras |-> join(<<",", " ">>, sorted({c \in Range(all_companies) : c # main_company})),
     Destino |-> group[1].Destino,
     Status |-> group[1].Status,
     Alerta_1H |-> group[1].Alerta_1H,
     Alerta_2H |-> group[1].Alerta_2H]

\* lines 763-776
consolidate_main(group, all_companies, voo_principal, prefixo_principal) ==
    consolidated_row(group, all_companies, voo_principal, prefixo_principal,
                     IF prefixo_principal # <<>> THEN from_prefix(prefixo_principal)
                     ELSE choose_main(all_companies, group[1].Destino, voo_principal, <<>>),
                     named(unique([i \in DOMAIN group |-> group[i].Horario_Estimado])))

\* lines 747-768
consolidate_many(group, all_companies, all_voos, all_prefixos) ==
    consolidate_main(group, all_companies,
                     IF all_voos # <<>> THEN all_voos[1] ELSE NA,
                     IF all_prefixos # <<>> THEN all_prefixos[1] ELSE <<>>)

\* with_parceiras setting the column Parceiras to "" even when the row has it
with_parceiras_reset(r) ==
    [k \in DOMAIN r \cup {"Parceiras"} |-> IF k = "Parceiras" THEN <<>> ELSE r[k]]

\* lines 730-734: the column Parceiras is added, empty, to a row without it
with_parceiras(r) ==
    IF "Parceiras" \in DOMAIN r THEN r
    ELSE [k \in DOMAIN r \cup {"Parceiras"} |-> IF k = "Parceiras" THEN <<>> ELSE r[k]]

\* consolidate_group, all_companies being the list of line 744
consolidate_group(group, all_companies) ==
    IF Len(group) = 1 THEN <<with_parceiras(group[1])>>
    ELSE <<consolidate_many(group, all_companies,
                            named(unique([i \in DOMAIN group |-> group[i].Voo])),
                            all_prefixos_of(group))>>

\* lines 815-817: the results in group order, unless no group was merged, and
\* then the rows keep df's order
consolidate_concat(rows, groups, frames) ==
    IF \A g \in DOMAIN groups : Len(groups[g]) = 1
       THEN [i \in DOMAIN rows |-> with_parceiras(rows[i])]
       ELSE concat(frames)

column_order ==
    {"Horario_Previsto", "Horario_Estimado", "Voo", "Companhia", "Parceiras", "Destino",
     "Status", "Alerta_1H", "Alerta_2H"}

\* lines 942-944: the rows the final clean-up keeps
kept_by_cleanup(r) ==
    /\ r.Companhia # NA
    /\ ~is_invalid_destination_for_dedup(r.Destino)
    /\ upper(r.Destino) \notin NON_CITY_WORDS

\* lines 942-960: the rows kept, without the internal columns
final_cleanup(rows) ==
    LET kept == SelectSeq(rows, kept_by_cleanup)
    IN [i \in DOMAIN kept |-> [k \in DOMAIN kept[i] \cap column_order |-> kept[i][k]]]

\* what extract_from_text returns for a row text
parsed(chars) == extract_from_text([is_str |-> TRUE, chars |-> chars]).value

\* flights a caller can hand to save_to_csv: records of extract_from_text, and
\* dicts that hold the optional keys, a blank-padded value, a carrier pair
\* written with '/', a carrier's name as destination, no flight number
SaveFlights ==
    {parsed(<<"1", "0", ":", "0", "0", " ", "5", "1", "2", " ", "B", "S", "B", " ">>
                \o WORD.Cancelado),
     parsed(<<"0", "9", ":", "0", "5", " ", "L", "A", "3", "0", "3", "0", " ", "M", "A", "D", " ">>
                \o WORD.Cancelado),
     parsed(<<"1", "0", ":", "0", "0", " ", "L", "A", "3", "0", "3", "0", " ">>
                \o WORD.Cancelado),
     parsed(<<"1", "0", ":", "0", "0", " ", "G", "O", "L", " ", "5", "1", "2", " ">>
                \o WORD.Cancelado \o <<" ", "B", "S", "B">>),
     parsed(<<"1", "0", ":", "0", "0", " ", "L", "A", "3", "0", "3", "0", " ", "B", "S", "B", " ">>
                \o WORD.Cancelado),
     [Horario_Previsto |-> <<"1", "0", ":", "0", "0">>, Horario_Estimado |-> <<"1", "1", ":", "3", "0">>,
      Voo |-> <<"6", "0", "0", "1">>, Voo_Completo |-> <<"D", "L", "6", "0", "0", "1">>, Voo_Prefixo |-> <<"D", "L">>,
      Companhia |-> CARRIER.DELTA, Companhia_Imagem |-> CARRIER.DELTA,
      Destino |-> <<"B", "S", "B">>, Status |-> WORD.Cancelado],
     [Horario |-> <<"1", "0", ":", "0", "0">>, Voo |-> NA, Status |-> WORD.Cancelado],
     [Horario |-> <<" ">> \o <<"1", "0", ":", "0", "0">>, Voo |-> <<"4", "5", " ">>,
      Companhia |-> CARRIER.AIR_FRANCE \o <<"/">> \o CARRIER.KLM,
      Destino |-> CARRIER.GOL, Status |-> WORD.Cancelado]}

\* readings of the wall clock, in seconds after midnight: 10:00:30 and 11:10:30
Clocks == {36030, 40230}

SaveIdle ==
    /\ svpc = "idle"
    /\ scraped_flights = <<>>
    /\ agora = 0
    /\ df = <<>>
    /\ applied = <<>>
    /\ csv_written = FALSE
    /\ csv_rows = <<>>
    /\ save_ret = -1

SaveInit ==
    /\ svpc = "build"
    /\ scraped_flights \in UNION {[1..n -> SaveFlights] : n \in 0..MaxFlights}
    /\ agora \in Clocks
    /\ df = <<>>
    /\ applied = <<>>
    /\ csv_written = FALSE
    /\ csv_rows = <<>>
    /\ save_ret = -1

\* lines 828-887: the loop over scraped_flights; 'return 0' without a row to save
BuildRows ==
    /\ svpc = "build"
    /\ \E rows \in {build_rows(scraped_flights, agora)} :
          IF rows = <<>>
             THEN /\ svpc' = "returned"
                  /\ save_ret' = 0
                  /\ UNCHANGED df
             ELSE /\ svpc' = "dedupe"
                  /\ df' = rows
                  /\ UNCHANGED save_ret
    /\ UNCHANGED <<scraped_flights, agora, applied, csv_written, csv_rows, notSaveVars>>

\* lines 889-910
Dedupe ==
    /\ svpc = "dedupe"
    /\ df' = dedupe(df)
    /\ svpc' = "clean"
    /\ UNCHANGED <<scraped_flights, agora, applied, csv_written, csv_rows, save_ret, notSaveVars>>

\* lines 912-927
CleanColumns ==
    /\ svpc = "clean"
    /\ df' = [i \in DOMAIN df |-> clean_row(df[i])]
    /\ svpc' = "consolidate"
    /\ UNCHANGED <<scraped_flights, agora, applied, csv_written, csv_rows, save_ret, notSaveVars>>

\* the groups consolidate_codeshare applies consolidate_group to
codeshare_groups == groupby(df, consolidation_keys(df))

\* consolidate_group for the next group
ConsolidateGroup ==
    /\ svpc = "consolidate"
    /\ Len(applied) < Len(codeshare_groups)
    /\ \E group \in {codeshare_groups[Len(applied) + 1]} :
          \E all_companies \in Perms(company_set(group)) :
              applied' = Append(applied, consolidate_group(group, all_companies))
    /\ UNCHANGED <<svpc, scraped_flights, agora, df, csv_written, csv_rows, save_ret, notSaveVars>>

\* lines 815-819 and 931-938: apply has seen every group
ConsolidateReturn ==
    /\ svpc = "consolidate"
    /\ Len(applied) = Len(codeshare_groups)
    /\ df' = consolidate_concat(df, codeshare_groups, applied)
    /\ svpc' = "cleanup"
    /\ UNCHANGED <<scraped_flights, agora, applied, csv_written, csv_rows, save_ret, notSaveVars>>

\* lines 940-960
FinalCleanup ==
    /\ svpc = "cleanup"
    /\ df' = final_cleanup(df)
    /\ svpc' = "export"
    /\ UNCHANGED <<scraped_flights, agora, applied, csv_written, csv_rows, save_ret, notSaveVars>>

\* lines 962-987: df.to_csv writes the file, or raises and save_to_csv returns 0
Export(ok) ==
    /\ svpc = "export"
    /\ IF ok THEN /\ csv_written' = TRUE
                  /\ csv_rows' = df
                  /\ save_ret' = Len(df)
             ELSE /\ save_ret' = 0
                  /\ UNCHANGED <<csv_written, csv_rows>>
    /\ svpc' = "returned"
    /\ UNCHANGED <<scraped_flights, agora, df, applied, notSaveVars>>

SaveNext ==
    \/ BuildRows
    \/ Dedupe
    \/ CleanColumns
    \/ ConsolidateGroup
    \/ ConsolidateReturn
    \/ FinalCleanup
    \/ \E ok \in BOOLEAN : Export(ok)

(***************************************************************************)
(* validators.py: one call of FlightValidator.validate or of               *)
(* calculate_delay_alerts                                                  *)
(***************************************************************************)
\* the records validate is called with
ValidateRecords ==
    {[k \in {"Companhia", "Voo", "Status"} \cup (IF has_destino THEN {"Destino"} ELSE {}) |->
         IF k = "Companhia" THEN c ELSE IF k = "Voo" THEN v ELSE IF k = "Status" THEN st ELSE d] :
        c \in {NA, CARRIER.GOL},
        v \in {<<"5", "1", "2">>, <<"L", "A", "3", "0", "3", "0">>, <<"1", "2">>,
               <<"5", "1", "2", "3", "4">>, <<"A", "B", "C", "D", "1", "2", "3">>, <<>>, NA},
        st \in {WORD.Cancelado, <<>>, NA, <<"E", "m", "b", "a", "r", "q", "u", "e">>},
        d \in {NA, <<"B", "S", "B">>, <<"X", "Y", "Z">>, WORD.Cancelado, upper(WORD.Cancelado),
               <<"G", "R", "U">>, <<"M", "a", "d", "r", "i", "d">>, <<>>, <<"M", "G">>,
               <<"V", "a", "l", "e", "n", "c", "i", "a">>},
        has_destino \in BOOLEAN}
    \cup {<<>>}

\* the scheduled and estimated times and the clock readings (seconds after
\* midnight) calculate_delay_alerts is called with
DelayCalls ==
    [horario_previsto : {<<"1", "0", ":", "0", "0">>, <<"2", "3", ":", "5", "0">>, NA},
     horario_estimado : {NA, <<"1", "0", ":", "1", "0">>, <<"1", "1", ":", "3", "0">>,
                         <<"0", "9", ":", "5", "0">>, <<"0", "0", ":", "2", "0">>,
                         <<"1", "2", ":", "0", "1">>},
     now : {600, 34200, 36030, 39600, 39630, 43230}]

\* the arguments choose_main is called with
ChooseMainCalls ==
    [companies_list : UNION {[1..n -> {CARRIER.LATAM, CARRIER.GOL, CARRIER.DELTA}] : n \in 0..2},
     destino : {WORD.Brasilia, <<"M", "a", "d", "r", "i", "d">>, NA},
     voo : {<<"3", "0", "3", "0">>, <<"6", "0", "0", "1">>},
     voo_prefixo : {<<>>, <<"L", "A">>, <<"D", "L">>, <<"X", "X">>, <<"l", "a">>}]

\* the arguments prioritize_by_number is called with
PrioritizeCalls ==
    [voo : {<<"2", "5", "0">>, <<"5", "1", "2">>, <<"1", "5", "0", "0">>, <<"3", "0", "3", "0">>,
            <<"4", "5", "0", "0">>, <<"5", "5", "0", "0">>, <<"6", "5", "0", "0">>,
            <<"7", "5", "8", "6">>, <<"8", "0", "3", "8">>, <<"8", "9", "5", "0">>,
            <<"9", "5", "0", "0">>, NA},
     companies_list : {<<>>, <<CARRIER.DELTA, CARRIER.LATAM>>, <<CARRIER.GOL, CARRIER.KLM>>}]

ValidatorsIdle ==
    /\ vpc = "idle"
    /\ v_args = <<>>
    /\ v_ret = None

ValidatorsInit ==
    /\ \/ vpc = "validate" /\ v_args \in ValidateRecords
       \/ vpc = "delay" /\ v_args \in DelayCalls
       \/ vpc = "choose_main" /\ v_args \in ChooseMainCalls
       \/ vpc = "prioritize" /\ v_args \in PrioritizeCalls
    /\ v_ret = None

\* FlightValidator.validate(flight_data)
Validate ==
    /\ vpc = "validate"
    /\ v_ret' = validate(v_args)
    /\ vpc' = "validated"
    /\ UNCHANGED <<v_args, notValidatorVars>>

\* calculate_delay_alerts(horario_previsto, horario_estimado); datetime.now()
\* reads v_args.now
CalculateDelayAlerts ==
    /\ vpc = "delay"
    /\ v_ret' = calculate_delay_alerts(v_args.horario_previsto, v_args.horario_estimado, v_args.now)
    /\ vpc' = "calculated"
    /\ UNCHANGED <<v_args, notValidatorVars>>

\* CompanyIdentifier.choose_main(companies_list, destino, voo, voo_prefixo)
ChooseMain ==
    /\ vpc = "choose_main"
    /\ v_ret' = choose_main(v_args.companies_list, v_args.destino, v_args.voo, v_args.voo_prefixo)
    /\ vpc' = "chosen"
    /\ UNCHANGED <<v_args, notValidatorVars>>

\* CompanyIdentifier.prioritize_by_number(voo, companies_list)
PrioritizeByNumber ==
    /\ vpc = "prioritize"
    /\ v_ret' = prioritize_by_number(v_args.voo, v_args.companies_list)
    /\ vpc' = "prioritized"
    /\ UNCHANGED <<v_args, notValidatorVars>>

ValidatorsNext == Validate \/ CalculateDelayAlerts \/ ChooseMain \/ PrioritizeByNumber

(***************************************************************************)
(* mcp_diagnostics.py: the lookup collaborator and its cache, and          *)
(* FlightDataProcessor._match_company, the cascade that consults it.       *)
(* Time is counted in hours; None is <<>>.                                 *)
(***************************************************************************)
CACHE_TTL_PATTERNS == 24

CACHE_TTL_AIRLINE == 168

MAX_MCP_CALLS_PER_RUN == 10

\* the last hour the clock reaches
MaxClock == 170

\* cache_key = f"airline_code_{code.upper()}"
airline_key(code) ==
    <<"a", "i", "r", "l", "i", "n", "e", "_", "c", "o", "d", "e", "_">> \o upper(code)

\* MCPDiagnostics._is_cache_valid(key, ttl_hours), the clock reading now
is_cache_valid(c, key, ttl_hours, now) ==
    IF key \notin DOMAIN c THEN FALSE
    ELSE IF "timestamp" \notin DOMAIN c[key] THEN FALSE
    ELSE now - c[key].timestamp < ttl_hours

\* MCPDiagnostics._get_cached(key)
get_cached(c, key) ==
    IF key \in DOMAIN c /\ "data" \in DOMAIN c[key] /\ c[key].data # <<>>
       THEN c[key].data
       ELSE <<>>

\* MCPDiagnostics._set_cached(key, value)
set_cached(c, key, value, now) ==
    [k \in DOMAIN c \cup {key} |-> IF k = key THEN [data |-> value, timestamp |-> now] ELSE c[k]]

\* MCPDiagnostics._call_mcp_tool: the keys of the dict it answers ({} for
\* None) and the call count it leaves
call_mcp_tool(count, dry) ==
    IF count >= MAX_MCP_CALLS_PER_RUN THEN [result |-> {}, count |-> count]
    ELSE IF dry THEN [result |-> {"response"}, count |-> count]
    ELSE [result |-> {}, count |-> count + 1]

\* what a call leaves behind: whether it raised, the value it returned, the
\* cache, the call count and the calls made on the way
Outcome(raised, value, c, count, trace) ==
    [raised |-> raised, value |-> value, cache |-> c, count |-> count, trace |-> trace]

\* MCPDiagnostics.search_airline_codes(code). On a cache hit the debug line that
\* reports the carrier names partial_code, a name nothing defines: NameError,
\* outside every try. airline is _parse_airline_from_search on the code: the
\* prefix table by the first two characters, then by the first one
search_airline_codes(c, count, dry, now, code) ==
    LET tool == call_mcp_tool(count, dry)
        by_two == Get(PREFIX_TO_COMPANY, upper(SubSeq(code, 1, 2)))
        airline == IF by_two # <<>> THEN by_two
                   ELSE Get(PREFIX_TO_COMPANY, upper(SubSeq(code, 1, 1)))
    IN IF Len(code) < 2 THEN Outcome(FALSE, <<>>, c, count, <<>>)
       ELSE IF /\ is_cache_valid(c, airline_key(code), CACHE_TTL_AIRLINE, now)
               /\ get_cached(c, airline_key(code)) # <<>>
            THEN Outcome(TRUE, <<>>, c, count, <<>>)
       \* the tool's answer has no "results" key unless the tool is replaced
       ELSE IF "results" \in tool.result /\ airline # <<>>
            THEN Outcome(FALSE, airline, set_cached(c, airline_key(code), airline, now),
                         tool.count, <<"_call_mcp_tool">>)
       ELSE Outcome(FALSE, <<>>, c, tool.count, <<"_call_mcp_tool">>)

\* MCPDiagnostics.research_flight_code_patterns(); known are the categories of
\* _get_known_patterns()
research_flight_code_patterns(c, count, dry, now) ==
    LET cache_key == <<"f", "l", "i", "g", "h", "t", "_", "c", "o", "d", "e", "_",
                       "p", "a", "t", "t", "e", "r", "n", "s">>
        known == <<"iata_2_letters", "icao_3_letters", "single_letter", "hybrid">>
        tool == call_mcp_tool(count, dry)
    IN IF /\ is_cache_valid(c, cache_key, CACHE_TTL_PATTERNS, now)
          /\ get_cached(c, cache_key) # <<>>
          THEN Outcome(FALSE, get_cached(c, cache_key), c, count, <<>>)
       ELSE IF "response" \in tool.result
            THEN Outcome(FALSE, known, set_cached(c, cache_key, known, now), tool.count,
                         <<"_call_mcp_tool">>)
       ELSE Outcome(FALSE, known, c, tool.count, <<"_call_mcp_tool">>)

\* Nivel 1 of _match_company: AVIANCA first, then the first name of
\* companhias_para_buscar (the names of the carriers above, in the list's
\* order) that the text holds
nivel_1(text_upper) ==
    LET companhias_para_buscar ==
            <<CARRIER.EMIRATES, CARRIER.AMERICAN \o CARRIER.AIRLINES, CARRIER.DELTA,
              CARRIER.UNITED, CARRIER.AIR_FRANCE, CARRIER.KLM, CARRIER.LUFTHANSA,
              CARRIER.BRITISH \o CARRIER.AIRWAYS, CARRIER.TURKISH \o CARRIER.AIRLINES,
              CARRIER.COPA, CARRIER.AEROLINEAS_ARGENTINAS, CARRIER.GOL, CARRIER.AZUL,
              CARRIER.TAP, CARRIER.LATAM>>
    IN IF Contains(text_upper, CARRIER.AVIANCA) THEN CARRIER.AVIANCA
       ELSE FirstIn(companhias_para_buscar, companhias_para_buscar, text_upper)

\* Nivel 3: the numeric range
nivel_3(voo_numeros) ==
    IF voo_numeros # <<>> /\ Range(voo_numeros) \subseteq digits
          /\ prioritize_by_number(voo_numeros, <<>>) # NA
       THEN prioritize_by_number(voo_numeros, <<>>)
       ELSE <<>>

\* FlightDataProcessor._match_company(text, voo_data, status), mcp_diagnostics
\* telling whether self.mcp_diagnostics is set
match_company(c, count, dry, now, text, voo_data, status, mcp_diagnostics) ==
    LET start == Outcome(FALSE, <<>>, c, count, <<>>)
        voo_prefixo == voo_data.voo_prefixo
        voo_completo == voo_data.voo_completo
        known == voo_prefixo # <<>> /\ Get(PREFIX_TO_COMPANY, voo_prefixo) # <<>>
        one_letter == voo_prefixo # <<>> /\ ~known /\ Len(voo_prefixo) = 1 /\ mcp_diagnostics
        \* 2.2: the collaborator is asked about the whole flight number
        asked == search_airline_codes(c, count, dry, now, voo_completo)
        by_mcp == [asked EXCEPT !.trace = <<"search_airline_codes">> \o asked.trace]
        \* 2.3: the patterns are researched and the answer is dropped
        researched == research_flight_code_patterns(c, count, dry, now)
        research == [researched EXCEPT !.trace = <<"research_flight_code_patterns">> \o researched.trace]
        \* the state Nivel 3 starts from
        after_2 == IF one_letter /\ voo_completo # <<>> THEN [by_mcp EXCEPT !.value = <<>>]
                   ELSE IF voo_prefixo # <<>> /\ ~known /\ Len(voo_prefixo) >= 2 /\ mcp_diagnostics
                        THEN [research EXCEPT !.value = <<>>]
                   ELSE start
        \* Nivel 4: the collaborator is asked in real time
        realtime == search_airline_codes(after_2.cache, after_2.count, dry, now, voo_completo)
    IN IF nivel_1(upper(text)) # <<>> THEN [start EXCEPT !.value = nivel_1(upper(text))]
       ELSE IF known THEN [start EXCEPT !.value = Get(PREFIX_TO_COMPANY, voo_prefixo)]
       ELSE IF one_letter /\ voo_completo # <<>> /\ (by_mcp.raised \/ by_mcp.value # <<>>)
            THEN by_mcp
       ELSE IF nivel_3(voo_data.voo_numeros) # <<>>
            THEN [after_2 EXCEPT !.value = nivel_3(voo_data.voo_numeros)]
       ELSE IF status # <<>> /\ voo_completo # <<>> /\ mcp_diagnostics
            THEN [realtime EXCEPT !.trace = after_2.trace \o <<"search_airline_codes">> \o realtime.trace]
       ELSE after_2

\* the caches _load_cache can return: no file, or entries of two of the codes.
\* The first code's entry is a carrier written at hour 0, 1 or 2, an entry with
\* no carrier, or an entry with no timestamp
LoadedCaches ==
    {<<>>} \cup
    {[k \in {airline_key(<<"X", "6", "5", "0", "9">>), airline_key(<<"X", "5", "1", "2">>)} |->
         IF k = airline_key(<<"X", "6", "5", "0", "9">>) THEN e
         ELSE [data |-> CARRIER.AZUL, timestamp |-> 1]] :
         e \in {[data |-> CARRIER.GOL, timestamp |-> 0], [data |-> CARRIER.GOL, timestamp |-> 1],
                [data |-> CARRIER.GOL, timestamp |-> 2], [data |-> <<>>, timestamp |-> 2],
                [data |-> CARRIER.GOL]}}

\* the arguments _match_company is called with
MatchCalls ==
    [text : {<<"1", "0", ":", "0", "0">>, <<"1", "0", ":", "0", "0", " ", "g", "o", "l">>},
     voo_data : {[voo_numeros |-> n, voo_prefixo |-> p, voo_completo |-> p \o n] :
                    n \in {<<"6", "5", "0", "9">>, <<"5", "1", "2">>},
                    p \in {<<>>, <<"X">>, <<"X", "X">>, <<"L", "A">>, <<"A">>}},
     status : {<<>>, <<"E", "m", "b", "a", "r", "q", "u", "e">>},
     mcp_diagnostics : BOOLEAN]

LookupIdle ==
    /\ lpc = "idle"
    /\ cache = <<>>
    /\ clock = 0
    /\ mcp_call_count = 0
    /\ dry_run = FALSE
    /\ l_args = <<>>
    /\ l_ret = None
    /\ l_trace = <<>>

\* MCPDiagnostics.__init__ has loaded the cache; the entries of the file are as
\* old as the TTL or a little younger
LookupInit ==
    /\ lpc = "ready"
    /\ cache \in LoadedCaches
    /\ clock = CACHE_TTL_AIRLINE
    /\ mcp_call_count = 0
    /\ dry_run \in BOOLEAN
    /\ l_args = <<>>
    /\ l_ret = None
    /\ l_trace = <<>>

\* the outcome o of a call becomes the state
Leaves(o) ==
    /\ l_ret' = [raised |-> o.raised, value |-> o.value]
    /\ cache' = o.cache
    /\ mcp_call_count' = o.count
    /\ l_trace' = o.trace

\* one call of search_airline_codes
SearchAirlineCodes ==
    /\ lpc = "ready"
    /\ \E code \in {<<"X", "6", "5", "0", "9">>, <<"x", "6", "5", "0", "9">>,
                     <<"X", "5", "1", "2">>, <<"7", "5", "8", "6">>, <<"X">>, <<>>} :
          /\ l_args' = [code |-> code]
          /\ Leaves(search_airline_codes(cache, mcp_call_count, dry_run, clock, code))
    /\ lpc' = "searched"
    /\ UNCHANGED <<clock, dry_run, notLookupVars>>

\* one call of _match_company
MatchCompany ==
    /\ lpc = "ready"
    /\ \E a \in MatchCalls :
          /\ l_args' = a
          /\ Leaves(match_company(cache, mcp_call_count, dry_run, clock,
                                  a.text, a.voo_data, a.status, a.mcp_diagnostics))
    /\ lpc' = "matched"
    /\ UNCHANGED <<clock, dry_run, notLookupVars>>

\* the caller has used the outcome and goes on to its next row
NextCall ==
    /\ lpc \in {"searched", "matched"}
    /\ lpc' = "ready"
    /\ l_args' = <<>>
    /\ l_ret' = None
    /\ l_trace' = <<>>
    /\ UNCHANGED <<cache, clock, mcp_call_count, dry_run, notLookupVars>>

\* an hour passes between two calls
Tick ==
    /\ lpc = "ready"
    /\ clock < MaxClock
    /\ clock' = clock + 1
    /\ UNCHANGED <<lpc, cache, mcp_call_count, dry_run, l_args, l_ret, l_trace, notLookupVars>>

LookupNext == SearchAirlineCodes \/ MatchCompany \/ NextCall \/ Tick

(***************************************************************************)
(* Specifications                                                          *)
(***************************************************************************)
\* one capture: ScraperEngine.run
Init == ScrapeInit /\ ParseIdle /\ SnapIdle /\ SaveIdle /\ ValidatorsIdle /\ LookupIdle

Spec == Init /\ [][ScrapeNext]_vars

\* one call of extract_from_text on a row text
InitParse == ScrapeInit /\ ParseInit /\ SnapIdle /\ SaveIdle /\ ValidatorsIdle /\ LookupIdle

SpecParse == InitParse /\ [][ParseNext]_vars

\* one run of the in-memory loop of extract_from_snapshot
InitSnapshot == ScrapeInit /\ ParseIdle /\ SnapInit /\ SaveIdle /\ ValidatorsIdle /\ LookupIdle

SpecSnapshot == InitSnapshot /\ [][SnapNext]_vars

\* one call of save_to_csv
InitSave == ScrapeInit /\ ParseIdle /\ SnapIdle /\ SaveInit /\ ValidatorsIdle /\ LookupIdle

SpecSave == InitSave /\ [][SaveNext]_vars

\* one call of a function of validators.py
InitValidators == ScrapeInit /\ ParseIdle /\ SnapIdle /\ SaveIdle /\ ValidatorsInit /\ LookupIdle

SpecValidators == InitValidators /\ [][ValidatorsNext]_vars

\* calls on the lookup collaborator and on the cascade that consults it
InitLookup == ScrapeInit /\ ParseIdle /\ SnapIdle /\ SaveIdle /\ ValidatorsIdle /\ LookupInit

SpecLookup == InitLookup /\ [][LookupNext]_vars

(***************************************************************************)
(* Claims about the capture: ScraperEngine.scrape and run                  *)
(***************************************************************************)
Returned == pc \in {"scrape_done", "done"}

\* C1: every row-text read (inner_text, in find_containers or extract_from_snapshot)
\* happens while the source is frozen: after set_offline(True) and the stabilization
\* wait, before any set_offline(False); so every captured text is the freeze-time text.
C1_ReadsWhileFrozen ==
    /\ \A c \in read_log : c.frozen /\ ~c.unfrozen
    /\ \A i \in 1..Len(row_texts) : row_texts[i].ver = freeze_version

C1_Witness ==
    /\ pc = "done"
    /\ strategy = 2
    /\ Len(row_texts) >= 2
    /\ unfreeze_calls > 0

\* C2: on every exit path of scrape that follows set_offline(True), the error paths
\* included, set_offline(False) has been called before scrape returns; the source is
\* online again unless that very call failed.
C2_UnfreezeOnEveryExit ==
    (Returned /\ froze) => (unfreeze_calls >= 1 /\ (~unfreeze_raised => ~offline))

C2_Witness ==
    /\ pc = "done"
    /\ froze
    /\ failure = "extraction"
    /\ unfreeze_calls >= 1
    /\ ~offline

\* C3: scrape always returns a list: a navigation timeout or any other page-level
\* failure gives the empty list, zero located rows give the empty list, and run()
\* then returns 0 without writing a report.
C3_FailuresDegradeToEmpty ==
    /\ Returned => /\ result # NoResult
                   /\ failure # "none" => result = <<>>
                   /\ flight_blocks = <<>> => result = <<>>
    /\ (pc = "done" /\ result = <<>>) => (run_ret = 0 /\ ~report_written)

C3_Witness ==
    /\ pc = "done"
    /\ failure = "navigation"
    /\ result = <<>>
    /\ run_ret = 0
    /\ ~report_written

\* C4: inner_text is called exactly once for each row handle that ends up in the
\* snapshot, whichever discovery strategy found the handles.
C4_EachHandleReadOnce ==
    \A i \in 1..Len(row_texts) : reads[row_texts[i].h] = 1

\* C21: the number of load-more clicks performed during one capture never
\* exceeds max_clicks, in every execution, including those in which a click or
\* the settle wait that follows a click raises.
C21_ClicksBounded == clicks_performed <= max_clicks

\* C22: if a wait or page interaction raises during or after pagination, once
\* load-more clicks have loaded rows, scrape still freezes, extracts and parses
\* the rows loaded so far and returns them, not an empty result.
C22_LoadedRowsSurviveTimeout ==
    (Returned /\ failure \in {"pagination", "wait"} /\ loaded > 1) =>
        /\ froze
        /\ row_texts # <<>>
        /\ result = ParsedHandles(row_texts)

\* C29: once extract_from_snapshot has returned a non-empty record list, a
\* failure of the unfreeze step that follows (set_offline(False) raising) does
\* not lose the records: scrape still returns the extracted list.
C29_RecordsSurviveUnfreezeFailure ==
    (Returned /\ failure = "unfreeze" /\ flights # <<>>) => result = flights

(***************************************************************************)
(* Claims about the per-row parse: extract_from_text                       *)
(***************************************************************************)
ParseReturned == ppc = "returned"

RecordFields == {"Horario", "Voo", "Voo_Completo", "Companhia", "Destino", "Status", "Terminal"}

\* the text holds a substring matching \d{1,2}:\d{2}
HasTimeSubstring(s) ==
    \E i \in 1..Len(s), n \in {1, 2} :
        /\ i + n + 2 <= Len(s)
        /\ \A j \in i..(i + n - 1) : s[j] \in digits
        /\ s[i + n] = ":"
        /\ s[i + n + 1] \in digits /\ s[i + n + 2] \in digits

\* the text holds a target status, whatever the case of its letters
HasTargetStatus(s) ==
    \E i \in DOMAIN STATUS_ALVO : Contains(lower(s), lower(STATUS_ALVO[i]))

\* the text holds 3-4 digits, with or without a 1-3 letter prefix, as the flight pattern finds them
HasFlightNumber(s) == flight_pattern_finditer(s, 1) # <<>>

\* the known carrier names the text holds
KnownCarriersIn(s) == {name \in COMPANHIAS_CONHECIDAS : Contains(upper(s), name)}

\* C5: extract_from_text never raises, whatever it is given (an empty, a short, a
\* malformed text, a value that is no str): every call returns a record or None.
C5_ParseNeverRaises ==
    ParseReturned =>
        /\ ~parse_out.raised
        /\ \/ parse_out.value = None
           \/ DOMAIN parse_out.value = RecordFields

\* a call on a value that is no str has returned None through the except branch
C5_Witness ==
    /\ ParseReturned
    /\ ~row_text.is_str
    /\ parse_out.exit = "except"
    /\ parse_out.value = None

\* C7: the parse rejects a row for lack of a time anchor exactly when the text
\* holds no substring matching \d{1,2}:\d{2}: a text without one is rejected, and
\* a text with one (a single-digit hour such as 9:05 too) passes the time step.
C7_TimeAnchorExactly ==
    (ParseReturned /\ row_text.is_str) =>
        /\ ~HasTimeSubstring(row_text.chars) => parse_out.value = None
        /\ HasTimeSubstring(row_text.chars) => parse_out.exit # "no_time"

\* C8: a row text that holds a time anchor, a target status and a 3-4 digit flight
\* number (with or without a 1-3 letter prefix) is extracted as a record, with
\* "N/A" for the destination or the carrier that could not be resolved.
C8_RescueRecord ==
    (/\ ParseReturned
     /\ row_text.is_str
     /\ HasTimeSubstring(clean(row_text.chars))
     /\ HasTargetStatus(clean(row_text.chars))
     /\ HasFlightNumber(clean(row_text.chars)))
        => parse_out.exit = "record"

\* C10: sovereignty: when the row text holds the literal name of a known carrier,
\* the resolved carrier is a known carrier named in the text, whatever the flight
\* prefix or the numeric range infers, for every known carrier name.
C10_Sovereignty ==
    (/\ ParseReturned
     /\ parse_out.exit = "record"
     /\ KnownCarriersIn(clean(row_text.chars)) # {})
        => parse_out.value.Companhia \in KnownCarriersIn(clean(row_text.chars))

\* the positions of text_clean where the time pattern matches
TimeHits(s) == {i \in 1..Len(s) : TimeAt(s, i)}

\* the flight candidates of text_clean: the matches of the flight pattern whose
\* digits are not those of the time anchor
Candidates(s) ==
    SelectSeq(flight_pattern_finditer(s, 1),
              LAMBDA c : c.numero # replace(time_pattern_search(s), ":"))

\* a second match of the time pattern lies between the time anchor and the
\* first flight candidate
SecondAnchorBeforeFlight(s) ==
    /\ TimeHits(s) # {}
    /\ Candidates(s) # <<>>
    /\ \E q \in TimeHits(s) : q > Leftmost(TimeHits(s)) /\ q < Candidates(s)[1].end

\* C11: a flight-number candidate separated from the time anchor by a second,
\* independent time anchor (or lying beyond the maximum distance from it) is
\* never accepted as the row's flight number: the row is rejected for lack of a
\* flight number instead.
C11_CrossRowGuard ==
    (/\ ParseReturned
     /\ row_text.is_str
     /\ SecondAnchorBeforeFlight(clean(row_text.chars)))
        => parse_out.exit # "record"

\* a letter without its diacritic
unaccent(c) ==
    IF c \in {"a'", "a~"} THEN "a" ELSE IF c = "c," THEN "c" ELSE IF c = "e'" THEN "e"
    ELSE IF c = "i'" THEN "i" ELSE IF c = "o'" THEN "o" ELSE IF c = "u'" THEN "u" ELSE c

\* a text folded: lower case, no diacritics
fold(s) == [i \in DOMAIN s |-> unaccent(lower(s)[i])]

\* the target statuses all of whose words, folded, are words of the folded text
FoldedStatuses(s) ==
    {i \in DOMAIN STATUS_ALVO :
        Range(split(fold(STATUS_ALVO[i]))) \subseteq Range(split(fold(s)))}

\* C12: status matching is case- and diacritic-insensitive and folds word
\* order: a row whose text holds the words of a target status, in another order
\* or without accents, is not rejected for status, and the record it yields
\* carries a canonical status whose words the text holds.
C12_StatusFolding ==
    (/\ ParseReturned
     /\ row_text.is_str
     /\ FoldedStatuses(row_text.chars) # {})
        => /\ parse_out.exit # "no_status"
           /\ parse_out.exit = "record" =>
                  \E i \in FoldedStatuses(row_text.chars) : parse_out.value.Status = STATUS_ALVO[i]

\* C20: in the pagination phase, when the load-more control is not found and
\* the scroll retries have been used up, pagination gives up early: the loop
\* makes no further attempt, stopping before max_clicks attempts are exhausted,
\* and the capture goes on towards the freeze with the rows loaded so far.
C20_GivesUpEarly ==
    [][(pc = "after_selectors" /\ ~button_found /\ attempt >= ScrollRetries)
           => (pc' # "load_selector" /\ loaded' = loaded)]_vars

(***************************************************************************)
(* Claims about the in-memory loop of extract_from_snapshot                *)
(***************************************************************************)
\* a row the loop rejects, or whose processing raises
BadRow(row) ==
    \/ row.raises
    \/ extract_from_text([is_str |-> TRUE, chars |-> row.text]).value = None

\* C6: extract_from_snapshot processes every row; a row that is rejected or whose
\* processing raises is counted and skipped, and the records of the other rows
\* are exactly those the loop produces when the bad rows are absent.
C6_BadRowsSkipped ==
    spc # "loop" =>
        /\ spc = "returned"
        /\ snap_i = Len(snap_rows) + 1
        /\ invalid_count = Cardinality({i \in DOMAIN snap_rows : snap_rows[i].raises})
        /\ invalid_count + descartados = Cardinality({i \in DOMAIN snap_rows : BadRow(snap_rows[i])})
        /\ all_flights_raw =
              snapshot_loop(LoopStart, SelectSeq(snap_rows, LAMBDA r : ~BadRow(r))).all_flights_raw

\* a raising row and a rejected row came before a row that gave a record
C6_Witness ==
    /\ spc = "returned"
    /\ Len(snap_rows) = 3
    /\ snap_rows[1].raises
    /\ ~snap_rows[2].raises /\ BadRow(snap_rows[2])
    /\ ~BadRow(snap_rows[3])
    /\ Len(all_flights_raw) = 1
    /\ invalid_count = 1 /\ descartados = 1

\* C23: every record in the set the extraction pipeline returns has passed the
\* validator: FlightValidator.validate(record) is true for each returned record.
C23_ReturnedRecordsValid ==
    spc = "returned" => \A i \in DOMAIN all_flights_raw : validate(all_flights_raw[i])

\* the row parses to a record whose identity key has been seen
SkippedAsDuplicate(row, seen) ==
    /\ ~row.raises
    /\ extract_from_text([is_str |-> TRUE, chars |-> row.text]).exit = "record"
    /\ strip(extract_from_text([is_str |-> TRUE, chars |-> row.text]).value.Voo) \o <<"|">>
           \o strip(extract_from_text([is_str |-> TRUE, chars |-> row.text]).value.Horario) \in seen

\* the step counts its row once: as accepted, discarded or in error, or, for a
\* row skipped by the identity-key check and only for such a row, in none
CountedOnce ==
    /\ (Len(all_flights_raw') - Len(all_flights_raw)) + (descartados' - descartados)
           + (invalid_count' - invalid_count)
         = IF SkippedAsDuplicate(snap_rows[snap_i], seen_flights) THEN 0 ELSE 1
    /\ Len(all_flights_raw') >= Len(all_flights_raw)
    /\ descartados' >= descartados
    /\ invalid_count' >= invalid_count

\* C30: row accounting in extract_from_snapshot: each captured row text is
\* counted in exactly one of accepted, duplicate, discarded or processing error,
\* so accepted + discarded + errors never exceeds the number of captured rows,
\* and duplicates_removed is never negative and is the number of rows skipped by
\* the identity-key check.
C30_RowAccounting ==
    /\ [](spc = "returned" =>
            /\ Len(all_flights_raw) + descartados + invalid_count <= Len(snap_rows)
            /\ duplicates_removed >= 0)
    /\ [](spc = "loop" =>
            (snap_i - 1) - Len(all_flights_raw) - descartados - invalid_count >= 0)
    /\ [][snap_i' = snap_i + 1 => CountedOnce]_vars

\* a run over three rows has ended: one accepted, one skipped as a duplicate,
\* one in error
C30_Witness ==
    /\ spc = "returned"
    /\ Len(snap_rows) = 3
    /\ Len(all_flights_raw) = 1
    /\ invalid_count = 1
    /\ duplicates_removed = 1

(***************************************************************************)
(* Claims about save_to_csv                                                *)
(***************************************************************************)
\* a saved row whose destination or carrier is "N/A"
Unresolved(r) == r.Destino = NA \/ r.Companhia = NA

\* C9: a record whose destination or carrier is "N/A" is kept through
\* deduplication, consolidation and the final clean-up: the rows handed to the
\* writer hold a row for its scheduled time and destination (its own row, or
\* the row its codeshare group was merged into).
C9_UnresolvedKept ==
    svpc = "export" =>
        \A r \in Range(build_rows(scraped_flights, agora)) :
            Unresolved(r) =>
                \E i \in DOMAIN df :
                    /\ df[i].Horario_Previsto = r.Horario_Previsto
                    /\ df[i].Destino = translate(r.Destino)

\* the identity key of a row
identity_key(r) == <<r.Voo, r.Horario_Previsto>>

\* rows[i] is the first row of rows with its identity key
FirstSeen(rows, i) == \A j \in 1..(i - 1) : identity_key(rows[j]) # identity_key(rows[i])

\* out holds, for every identity key of rows, one row, the first one seen
KeepsFirstSeen(rows, out) ==
    \A i \in DOMAIN rows :
        FirstSeen(rows, i) =>
            /\ Cardinality({k \in DOMAIN out : identity_key(out[k]) = identity_key(rows[i])}) = 1
            /\ \E k \in DOMAIN out : out[k] = rows[i]

\* C14: dedupe yields exactly one record per identity key (flight number,
\* scheduled time), and the record kept for a key is the first-seen occurrence in
\* input order; here for the grouped dedupe of save_to_csv, right after it ran.
C14_FirstSeenKept ==
    svpc = "clean" => KeepsFirstSeen(build_rows(scraped_flights, agora), df)

\* the carriers of the rows of a group
CarriersOf(group) == {group[i].Companhia : i \in DOMAIN group}

\* N >= 2 rows with N carriers, all of them named
DistinctCarriers(group) ==
    /\ Len(group) >= 2
    /\ Cardinality(CarriersOf(group)) = Len(group)
    /\ \A c \in CarriersOf(group) : c # <<>> /\ c # NA

\* the entries of a partner list written as "A, B, C"
Entries(parceiras) ==
    IF parceiras = <<>> THEN <<>>
    ELSE [i \in DOMAIN split_on(parceiras, ",") |-> lstrip(split_on(parceiras, ",")[i])]

\* frame is one row; its partner list is the carriers of the group without the
\* row's own carrier, in increasing order
PartnersOk(group, frame) ==
    /\ Len(frame) = 1
    /\ Len(Entries(frame[1].Parceiras)) = Len(group) - 1
    /\ Range(Entries(frame[1].Parceiras)) = CarriersOf(group) \ {frame[1].Companhia}
    /\ \A i \in 1..(Len(group) - 2) :
           str_lt(Entries(frame[1].Parceiras)[i], Entries(frame[1].Parceiras)[i + 1])

Essence(r) ==
    [Horario_Previsto |-> r.Horario_Previsto, Destino |-> r.Destino, Voo |-> r.Voo,
     Companhia |-> r.Companhia, Parceiras |-> r.Parceiras]

EssenceOf(rows) == {Essence(rows[i]) : i \in DOMAIN rows}

\* consolidate applied to rows returns the records of rows: no two rows share a
\* consolidation key (a group of two or more comes back as one row), and a row
\* alone in its group comes back as it is
ConsolidateChangesNothing(rows, groups) ==
    /\ \A g \in DOMAIN groups :
           /\ Len(groups[g]) = 1
           /\ EssenceOf(consolidate_group(groups[g], <<>>)) = EssenceOf(groups[g])
    /\ EssenceOf(consolidate_concat(rows, groups, [g \in DOMAIN groups |-> groups[g]]))
           = EssenceOf(rows)

\* C16: idempotence: dedupe then consolidate applied to the output of dedupe
\* then consolidate returns the same record set: the same records, with the
\* same carrier, flight number and partner list each.
C16_Idempotent ==
    svpc = "cleanup" =>
        /\ EssenceOf(dedupe(df)) = EssenceOf(df)
        /\ Len(dedupe(df)) = Len(df)
        /\ ConsolidateChangesNothing(dedupe(df), groupby(dedupe(df), consolidation_keys(dedupe(df))))

\* the first pass has merged a group and left another row alone
C16_Witness ==
    /\ svpc = "cleanup"
    /\ Len(df) >= 2
    /\ \E i \in DOMAIN df : df[i].Parceiras # <<>>

\* C24: the delay calculation is applied after deduplication and
\* consolidation: in the final output each record's alert_1h and alert_2h are
\* those the calculator gives for the record's own final scheduled time and
\* estimated time, an estimated time backfilled from a non-main row included.
C24_AlertsOfFinalTimes ==
    svpc = "export" =>
        \A i \in DOMAIN df :
            /\ df[i].Alerta_1H
                   = calculate_delay_alerts(df[i].Horario_Previsto, df[i].Horario_Estimado, agora).alerta_1h
            /\ df[i].Alerta_2H
                   = calculate_delay_alerts(df[i].Horario_Previsto, df[i].Horario_Estimado, agora).alerta_2h

(***************************************************************************)
(* Claims about validators.py                                              *)
(***************************************************************************)
Validated == vpc = "validated"

\* the flight-number field without its prefix of one to three letters
WithoutPrefix(voo) == SubSeq(voo, RunLen(voo, 1, AZ, 3) + 1, Len(voo))

\* the three conditions of a record: the number is three or four digits, the
\* status is not empty, the destination is not the text of the status
NumberOk(r) ==
    /\ Len(WithoutPrefix(strip(get(r, "Voo", <<>>)))) \in 3..4
    /\ Range(WithoutPrefix(strip(get(r, "Voo", <<>>)))) \subseteq digits

StatusOk(r) == strip(get(r, "Status", <<>>)) # <<>>

ColumnsOk(r) == strip(get(r, "Destino", <<>>)) # strip(get(r, "Status", <<>>))

Calculated == vpc = "calculated"

\* hh:mm of today in seconds after midnight
TimeOfToday(hhmm) == seconds_of(split_on(hhmm, ":"))

\* reference - scheduled_time in seconds: the reference is the estimated time
\* when there is one, the clock otherwise; the clock path carries the 12-hour
\* rollover correction
ReferenceMinusScheduled(call) ==
    IF call.horario_estimado # NA
       THEN TimeOfToday(call.horario_estimado) - TimeOfToday(call.horario_previsto)
       ELSE observed_delay(TimeOfToday(call.horario_previsto), call.now)

\* C17: delay_minutes = max(0, minutes(reference - scheduled_time)), the
\* reference being the estimated time when present and now otherwise, both times
\* read as times of today apart from the 12-hour rollover correction; an estimate
\* earlier than the scheduled time gives 0.
C17_DelayMinutes ==
    (Calculated /\ v_args.horario_previsto # NA) =>
        v_ret.atraso_minutos =
            IF ReferenceMinusScheduled(v_args) > 0 THEN ReferenceMinusScheduled(v_args) \div 60 ELSE 0

TenToHalfPastEleven ==
    /\ v_args.horario_previsto = <<"1", "0", ":", "0", "0">>
    /\ v_args.horario_estimado = <<"1", "1", ":", "3", "0">>

\* C18: scheduled 10:00 and estimated 11:30 give, whatever the clock,
\* delay_minutes 90 with alert_1h true and alert_2h true.
C18_BothAlerts ==
    (Calculated /\ TenToHalfPastEleven) =>
        /\ v_ret.atraso_minutos = 90
        /\ v_ret.alerta_1h = WORD.SIM
        /\ v_ret.alerta_2h = WORD.SIM

\* C18 amended: scheduled 10:00 and estimated 11:30 give, whatever the clock,
\* delay_minutes 90 with alert_1h true and alert_2h false.
C18_OneHourAlertOnly ==
    (Calculated /\ TenToHalfPastEleven) =>
        /\ v_ret.atraso_minutos = 90
        /\ v_ret.alerta_1h = WORD.SIM
        /\ v_ret.alerta_2h = WORD.NAO

\* the call with 10:00 and 11:30 has returned, the clock reading 12:00:30
C18_Witness ==
    /\ Calculated
    /\ TenToHalfPastEleven
    /\ v_args.now = 43230

\* C19: alert_1h holds exactly when the returned delay_minutes exceeds 60 and
\* alert_2h exactly when it exceeds 120, also when the clock reading has a
\* seconds component.
C19_AlertsFollowMinutes ==
    Calculated =>
        /\ v_ret.alerta_1h = WORD.SIM <=> v_ret.atraso_minutos > 60
        /\ v_ret.alerta_2h = WORD.SIM <=> v_ret.atraso_minutos > 120

\* C25: main-carrier choice gives the flight-number prefix absolute priority:
\* whenever the prefix maps to a carrier in the prefix table, choose_main returns
\* that carrier, for every companies_list (lists of zero or one carrier
\* included), every destination and every flight number.
C25_PrefixWins ==
    (vpc = "chosen" /\ from_prefix(v_args.voo_prefixo) # <<>>) =>
        v_ret = from_prefix(v_args.voo_prefixo)

\* the number a flight-number str stands for, -1 for a str that is no number
NumberOf(voo) == IF voo # <<>> /\ Range(voo) \subseteq digits THEN int(voo) ELSE -1

\* C27: numeric-range inference with no candidate carrier list maps every
\* flight number in 3000-4999, every one of 8000 or above (so 8038) and every
\* one in 7000-7999 to LATAM, a number of overlapping bands included.
C27_LatamBands ==
    (/\ vpc = "prioritized"
     /\ v_args.companies_list = <<>>
     /\ \/ NumberOf(v_args.voo) \in 3000..4999
        \/ NumberOf(v_args.voo) \in 7000..7999
        \/ NumberOf(v_args.voo) >= 8000)
        => v_ret = CARRIER.LATAM

(***************************************************************************)
(* Claims about the lookup collaborator                                    *)
(***************************************************************************)
\* one of the levels 1-3 resolves the carrier of the call a
ResolvedByLevels1to3(a) ==
    \/ nivel_1(upper(a.text)) # <<>>
    \/ a.voo_data.voo_prefixo # <<>> /\ Get(PREFIX_TO_COMPANY, a.voo_data.voo_prefixo) # <<>>
    \/ nivel_3(a.voo_data.voo_numeros) # <<>>

\* C26: in the carrier cascade the lookup collaborator is consulted only after
\* direct text match, prefix table and numeric-range inference have all
\* failed: when one of levels 1-3 would resolve the carrier, _match_company
\* makes no call on the collaborator.
C26_LookupOnlyAfterLevelsFail ==
    (lpc = "matched" /\ ResolvedByLevels1to3(l_args)) => l_trace = <<>>

\* the cache holds a carrier for the code, and its age at the hour now
HoldsCarrier(c, code) ==
    /\ airline_key(code) \in DOMAIN c
    /\ DOMAIN c[airline_key(code)] = {"data", "timestamp"}
    /\ c[airline_key(code)].data # <<>>

AgeOf(c, code, now) == now - c[airline_key(code)].timestamp

\* C28: search_airline_codes(code) returns the cached carrier, without calling
\* the external tool and without raising, whenever the cache holds an entry
\* for the code younger than the 7-day TTL; an entry of age at or beyond the
\* TTL is never returned.
C28_FreshEntryReturned ==
    [][(lpc = "ready" /\ lpc' = "searched" /\ Len(l_args'.code) >= 2
           /\ HoldsCarrier(cache, l_args'.code)) =>
          IF AgeOf(cache, l_args'.code, clock) < CACHE_TTL_AIRLINE
             THEN /\ ~l_ret'.raised
                  /\ l_ret'.value = cache[airline_key(l_args'.code)].data
                  /\ l_trace' = <<>>
             ELSE l_ret'.value # cache[airline_key(l_args'.code)].data]_vars

====
